---- MODULE Spec2Model ----
(***************************************************************************)
(* A model of the notebook helper functions of the repository:             *)
(*   helperFunctions/AMS/segmentation.py   (map segmentation pipeline)     *)
(*   helperFunctions/evaluation.py         (compare)                       *)
(*   helperFunctions/dataprepGoogle.py, dataprepMapBox.py (getTiles)       *)
(*                                                                         *)
(* Rasters are numpy arrays in the source.  Here a raster is a record      *)
(*   [rows |-> r, cols |-> c, px |-> f]                                    *)
(* where f maps every position <<x, y>> (x a column, y a row) to a grey    *)
(* value 0..255 (one channel) or to a triple <<b, g, r>> (three channels,  *)
(* in OpenCV's BGR order).  The OpenCV routines the source calls are       *)
(* modelled by what they compute on such rasters.                          *)
(***************************************************************************)
EXTENDS Integers, Sequences, FiniteSets, TLC

(***************************************************************************)
(* Bounds of the model: the size of the rasters of the modelled scenes.    *)
(***************************************************************************)
Cols == 22
Rows == 13

---------------------------------------------------------------------------
(* Raster basics *)

Pos(img) == (0..(img.cols - 1)) \X (0..(img.rows - 1))

InImg(img, p) == p[1] >= 0 /\ p[1] < img.cols /\ p[2] >= 0 /\ p[2] < img.rows

Clamp(v, lo, hi) == IF v < lo THEN lo ELSE IF v > hi THEN hi ELSE v

\* BORDER_REPLICATE: a position outside the raster reads the nearest edge pixel.
Replicate(img, p) == <<Clamp(p[1], 0, img.cols - 1), Clamp(p[2], 0, img.rows - 1)>>

\* BORDER_REFLECT_101 (OpenCV's BORDER_DEFAULT): gfedcb|abcdefgh|gfedcba.
Reflect1(v, n) == IF n = 1 THEN 0
                  ELSE IF v < 0 THEN Clamp(0 - v, 0, n - 1)
                  ELSE IF v > n - 1 THEN Clamp(2 * (n - 1) - v, 0, n - 1)
                  ELSE v

Reflect101(img, p) == <<Reflect1(p[1], img.cols), Reflect1(p[2], img.rows)>>

N4(p) == {<<p[1] - 1, p[2]>>, <<p[1] + 1, p[2]>>, <<p[1], p[2] - 1>>, <<p[1], p[2] + 1>>}

N8(p) == {<<p[1] + dx, p[2] + dy>> : dx \in {-1, 0, 1}, dy \in {-1, 0, 1}} \ {p}

\* A raster of the given shape and pixel values.  The pixel function is
\* tabulated once, here (the comparison makes TLC enumerate it), and not
\* evaluated again at each later lookup.
Raster(rows, cols, f) ==
    CHOOSE r \in {[rows |-> rows, cols |-> cols, px |-> g] : g \in {f}} : r.px = r.px

\* A raster with new pixel values and the same shape.
WithPx(img, f) == Raster(img.rows, img.cols, f)

\* np.zeros_like(img) for a one-channel raster.
ZerosLike(img) == WithPx(img, [p \in Pos(img) |-> 0])

\* Colours, in BGR order as OpenCV stores them.
White == <<255, 255, 255>>
Black == <<0, 0, 0>>
Green == <<0, 255, 0>>
Red == <<0, 0, 255>>

---------------------------------------------------------------------------
(* Pixel-wise OpenCV routines *)

\* cv2.cvtColor(., COLOR_BGR2GRAY) on 8-bit pixels: OpenCV's fixed-point
\* 0.114 B + 0.587 G + 0.299 R with 14 fractional bits.
Gray(c) == (c[1] * 1868 + c[2] * 9617 + c[3] * 4899 + 8192) \div 16384

BGR2GRAY(img) == WithPx(img, [p \in Pos(img) |-> Gray(img.px[p])])

\* cv2.threshold(., t, 255, THRESH_BINARY): 255 where the value exceeds t.
ThresholdBinary(img, t) ==
    WithPx(img, [p \in Pos(img) |-> IF img.px[p] > t THEN 255 ELSE 0])

\* ~img and cv2.bitwise_not on an 8-bit one-channel raster.
BitwiseNot(img) == WithPx(img, [p \in Pos(img) |-> 255 - img.px[p]])

\* cv2.bitwise_and(a, b) of two one-channel 0/255 masks of the same shape.
BitwiseAnd(a, b) ==
    WithPx(a, [p \in Pos(a) |-> IF a.px[p] = 255 /\ b.px[p] = 255 THEN 255
                                ELSE IF a.px[p] = 0 \/ b.px[p] = 0 THEN 0
                                ELSE CHOOSE v \in 0..255 :
                                       \A k \in 0..7 :
                                         ((v \div (2^k)) % 2 = 1) <=>
                                         (((a.px[p] \div (2^k)) % 2 = 1) /\
                                          ((b.px[p] \div (2^k)) % 2 = 1))])

\* cv2.bitwise_or(a, b) of two 0/255 masks.
BitwiseOr(a, b) ==
    WithPx(a, [p \in Pos(a) |-> IF a.px[p] = 255 \/ b.px[p] = 255 THEN 255 ELSE 0])

\* cv2.bitwise_and(img, img, mask=m) of a three-channel raster: the pixel
\* where the mask is set, zero elsewhere (the result array starts zeroed).
MaskedColour(img, m) ==
    WithPx(img, [p \in Pos(img) |-> IF m.px[p] # 0 THEN img.px[p] ELSE Black])

\* cv2.inRange on a three-channel raster: 255 where every channel lies
\* within its bounds (both inclusive), 0 elsewhere.
InRange(img, lo, hi) ==
    WithPx(img, [p \in Pos(img) |->
        IF \A k \in 1..3 : lo[k] <= img.px[p][k] /\ img.px[p][k] <= hi[k]
        THEN 255 ELSE 0])

\* The positions where a one-channel raster is not zero, and
\* cv2.countNonZero.
NonZero(img) == {p \in Pos(img) : img.px[p] # 0}

CountNonZero(img) == Cardinality(NonZero(img))

\* An assignment that reaches the pixels the mask leaves out.
AssignElsewhere(img, mask, v, colour) ==
    WithPx(img, [p \in Pos(img) |-> IF mask.px[p] = v THEN img.px[p] ELSE colour])

\* img[mask == v] = colour (numpy boolean-mask assignment).
AssignWhere(img, mask, v, colour) ==
    WithPx(img, [p \in Pos(img) |-> IF mask.px[p] = v THEN colour ELSE img.px[p]])

---------------------------------------------------------------------------
(* Exact arithmetic on large naturals, for Otsu's between-class variance:   *)
(* a natural is a sequence of base-1000 digits, least significant first.    *)

RECURSIVE BigCarry(_, _)
BigCarry(s, carry) ==
    IF s = <<>>
    THEN IF carry = 0 THEN <<>> ELSE <<carry % 1000>> \o BigCarry(<<>>, carry \div 1000)
    ELSE <<(Head(s) + carry) % 1000>> \o BigCarry(Tail(s), (Head(s) + carry) \div 1000)

RECURSIVE BigStrip(_)
BigStrip(s) ==
    IF s # <<>> /\ s[Len(s)] = 0 THEN BigStrip(SubSeq(s, 1, Len(s) - 1)) ELSE s

BigFromInt(n) == BigStrip(BigCarry(<<n>>, 0))

RECURSIVE BigDigitSum(_, _, _, _)
BigDigitSum(x, y, k, i) ==
    IF i > Len(x) THEN 0
    ELSE (IF k - i + 1 >= 1 /\ k - i + 1 <= Len(y) THEN x[i] * y[k - i + 1] ELSE 0)
         + BigDigitSum(x, y, k, i + 1)

BigMul(x, y) ==
    IF x = <<>> \/ y = <<>> THEN <<>>
    ELSE BigStrip(BigCarry([k \in 1..(Len(x) + Len(y) - 1) |-> BigDigitSum(x, y, k, 1)], 0))

RECURSIVE BigLessFrom(_, _, _)
BigLessFrom(x, y, i) ==
    IF i = 0 THEN FALSE
    ELSE IF x[i] # y[i] THEN x[i] < y[i]
    ELSE BigLessFrom(x, y, i - 1)

BigLess(x, y) ==
    IF Len(x) # Len(y) THEN Len(x) < Len(y) ELSE BigLessFrom(x, y, Len(x))

Abs(n) == IF n < 0 THEN 0 - n ELSE n

RECURSIVE SumOver(_, _)
SumOver(S, f) ==
    IF S = {} THEN 0
    ELSE LET x == CHOOSE x \in S : TRUE IN f[x] + SumOver(S \ {x}, f)

SetMax(S) == CHOOSE m \in S : \A x \in S : x <= m

SetMin(S) == CHOOSE m \in S : \A x \in S : m <= x

---------------------------------------------------------------------------
(* Otsu's threshold *)

\* The threshold cv2.threshold(..., THRESH_OTSU) chooses for a one-channel
\* raster: the first grey level t (scanning 0..255) that maximises the
\* between-class variance q1*q2*(mu1-mu2)^2 of the split {<= t} / {> t};
\* 0 when the raster holds a single grey level.  With n1 pixels and grey
\* sum s1 at or below t, of N pixels with grey sum S, the variance is
\* (s1*N - S*n1)^2 / (N^2 * n1 * (N - n1)).
OtsuThreshold(img) ==
    LET N == img.rows * img.cols
        lv == {img.px[p] : p \in Pos(img)}
        cnt == [v \in lv |-> Cardinality({p \in Pos(img) : img.px[p] = v})]
        wsum == [v \in lv |-> v * cnt[v]]
        S == SumOver(lv, wsum)
        n1 == [t \in lv |-> SumOver({v \in lv : v <= t}, cnt)]
        s1 == [t \in lv |-> SumOver({v \in lv : v <= t}, wsum)]
        cand == {t \in lv : n1[t] < N}
        num == [t \in cand |-> BigFromInt(Abs(s1[t] * N - S * n1[t]))]
        den == [t \in cand |-> BigFromInt(n1[t] * (N - n1[t]))]
        \* sigma(t) > sigma(u)
        Better(t, u) == BigLess(BigMul(BigMul(num[u], num[u]), den[t]),
                                BigMul(BigMul(num[t], num[t]), den[u]))
    IN  IF cand = {} THEN 0
        ELSE CHOOSE t \in cand :
               \A u \in cand \ {t} : IF u < t THEN Better(t, u) ELSE ~Better(u, t)

\* cv2.threshold(img, _, 255, THRESH_BINARY | THRESH_OTSU): the given
\* threshold is ignored and Otsu's is used.
ThresholdOtsu(img) == ThresholdBinary(img, OtsuThreshold(img))

---------------------------------------------------------------------------
(* Neighbourhood routines *)

\* cv2.getStructuringElement(MORPH_RECT, (w, h)) and np.ones((h, w)) as the
\* set of offsets from the anchor, which is the kernel's centre (w/2, h/2).
RectKernel(w, h) ==
    {<<i - (w \div 2), j - (h \div 2)>> : i \in 0..(w - 1), j \in 0..(h - 1)}

\* cv2.getStructuringElement(MORPH_ELLIPSE, (2, 2)) is [[0, 1], [1, 1]]:
\* with the anchor at (1, 1) it covers the pixel, its left and its upper
\* neighbour.
EllipseKernel2 == {<<0, -1>>, <<-1, 0>>, <<0, 0>>}

\* cv2.dilate / cv2.erode, one iteration: the maximum / minimum over the
\* kernel's footprint; positions outside the raster are ignored.
Dilate(img, kernel) ==
    WithPx(img, [p \in Pos(img) |->
        SetMax({img.px[<<p[1] + d[1], p[2] + d[2]>>] :
                  d \in {e \in kernel : InImg(img, <<p[1] + e[1], p[2] + e[2]>>)}})])

Erode(img, kernel) ==
    WithPx(img, [p \in Pos(img) |->
        SetMin({img.px[<<p[1] + d[1], p[2] + d[2]>>] :
                  d \in {e \in kernel : InImg(img, <<p[1] + e[1], p[2] + e[2]>>)}})])

\* cv2.morphologyEx(., MORPH_OPEN, k) and (., MORPH_CLOSE, k).
MorphOpen(img, kernel) == Dilate(Erode(img, kernel), kernel)

MorphClose(img, kernel) == Erode(Dilate(img, kernel), kernel)

\* The median of the values f[d], d in D (an odd number of them).
MedianOf(D, f) ==
    LET vals == {f[d] : d \in D}
        half == (Cardinality(D) \div 2) + 1
    IN  IF Cardinality(vals) = 1 THEN CHOOSE v \in vals : TRUE
        ELSE CHOOSE v \in vals :
               /\ Cardinality({d \in D : f[d] <= v}) >= half
               /\ Cardinality({d \in D : f[d] < v}) < half

Window(k) == ((0 - (k \div 2))..(k \div 2)) \X ((0 - (k \div 2))..(k \div 2))

\* cv2.medianBlur(img, k) on a one-channel raster (BORDER_REPLICATE).
MedianBlur1(img, k) ==
    LET W == Window(k)
    IN  WithPx(img, [p \in Pos(img) |->
            LET w == [d \in W |-> img.px[Replicate(img, <<p[1] + d[1], p[2] + d[2]>>)]]
            IN  MedianOf(W, w)])

\* cv2.medianBlur(img, k) on a three-channel raster: each channel alone.
MedianBlur3(img, k) ==
    WithPx(img, [p \in Pos(img) |->
        LET w == [d \in Window(k) |-> img.px[Replicate(img, <<p[1] + d[1], p[2] + d[2]>>)]]
        IN  IF \A d \in Window(k) : w[d] = img.px[p] THEN img.px[p]
            ELSE <<MedianOf(Window(k), [d \in Window(k) |-> w[d][1]]),
                   MedianOf(Window(k), [d \in Window(k) |-> w[d][2]]),
                   MedianOf(Window(k), [d \in Window(k) |-> w[d][3]])>>])

\* cv2.cvtColor(., COLOR_BGR2HSV) on 8-bit pixels (H in 0..179): OpenCV's
\* integer conversion with 12 fractional bits and its two division tables.
SDiv(v) == (2 * 1044480 + v) \div (2 * v)

HDiv(d) == (2 * 122880 + d) \div (2 * d)

HSV(c) ==
    LET b == c[1]
        g == c[2]
        r == c[3]
        v == SetMax({b, g, r})
        diff == v - SetMin({b, g, r})
        s == IF v = 0 THEN 0 ELSE (diff * SDiv(v) + 2048) \div 4096
        hraw == IF v = r THEN g - b
                ELSE IF v = g THEN b - r + 2 * diff
                ELSE r - g + 4 * diff
        h0 == IF diff = 0 THEN 0 ELSE (hraw * HDiv(diff) + 2048) \div 4096
        h == IF h0 < 0 THEN h0 + 180 ELSE h0
    IN  <<h, s, v>>

BGR2HSV(img) == WithPx(img, [p \in Pos(img) |-> HSV(img.px[p])])

\* cv2.bilateralFilter(img, 5, 255, 255) on a three-channel raster: every
\* pixel becomes the weighted mean, per channel, of the 13 pixels within
\* distance 2 (BORDER_REFLECT_101), a neighbour's weight being
\* exp(-dist^2 / (2*255^2)) * exp(-delta^2 / (2*255^2)) with delta the sum
\* of the absolute channel differences to the centre pixel.  The spatial
\* factor is above 0.9999 and taken as 1; the colour factor is tabulated
\* in units of 1/10000 (ColourWeight[delta + 1]).  OpenCV computes this in
\* single precision, so a result may differ from the library's by one grey
\* level where neighbours differ; on a uniform neighbourhood it is exact.
ColourWeight == <<
    10000, 10000, 10000, 9999, 9999, 9998, 9997, 9996, 9995, 9994, 9992, 9991, 9989, 9987, 9985, 9983,
    9980, 9978, 9975, 9972, 9969, 9966, 9963, 9959, 9956, 9952, 9948, 9944, 9940, 9936, 9931, 9926,
    9922, 9917, 9912, 9906, 9901, 9895, 9890, 9884, 9878, 9872, 9865, 9859, 9852, 9845, 9839, 9832,
    9824, 9817, 9810, 9802, 9794, 9786, 9778, 9770, 9762, 9753, 9745, 9736, 9727, 9718, 9709, 9699,
    9690, 9680, 9671, 9661, 9651, 9641, 9630, 9620, 9609, 9599, 9588, 9577, 9566, 9554, 9543, 9531,
    9520, 9508, 9496, 9484, 9472, 9460, 9447, 9435, 9422, 9409, 9396, 9383, 9370, 9357, 9343, 9330,
    9316, 9302, 9288, 9274, 9260, 9246, 9231, 9217, 9202, 9187, 9172, 9157, 9142, 9127, 9112, 9096,
    9081, 9065, 9049, 9033, 9017, 9001, 8985, 8968, 8952, 8935, 8919, 8902, 8885, 8868, 8851, 8834,
    8816, 8799, 8781, 8764, 8746, 8728, 8710, 8692, 8674, 8656, 8638, 8619, 8601, 8582, 8564, 8545,
    8526, 8507, 8488, 8469, 8450, 8431, 8411, 8392, 8372, 8353, 8333, 8313, 8293, 8273, 8253, 8233,
    8213, 8193, 8173, 8152, 8132, 8111, 8091, 8070, 8049, 8028, 8007, 7986, 7965, 7944, 7923, 7902,
    7881, 7859, 7838, 7816, 7795, 7773, 7751, 7730, 7708, 7686, 7664, 7642, 7620, 7598, 7576, 7554,
    7532, 7509, 7487, 7465, 7442, 7420, 7397, 7375, 7352, 7330, 7307, 7284, 7261, 7239, 7216, 7193,
    7170, 7147, 7124, 7101, 7078, 7055, 7032, 7009, 6985, 6962, 6939, 6916, 6892, 6869, 6846, 6822,
    6799, 6775, 6752, 6729, 6705, 6682, 6658, 6634, 6611, 6587, 6564, 6540, 6516, 6493, 6469, 6445,
    6422, 6398, 6374, 6351, 6327, 6303, 6279, 6256, 6232, 6208, 6184, 6160, 6137, 6113, 6089, 6065,
    6042, 6018, 5994, 5970, 5946, 5923, 5899, 5875, 5851, 5828, 5804, 5780, 5756, 5733, 5709, 5685,
    5662, 5638, 5614, 5591, 5567, 5543, 5520, 5496, 5473, 5449, 5425, 5402, 5378, 5355, 5331, 5308,
    5285, 5261, 5238, 5215, 5191, 5168, 5145, 5121, 5098, 5075, 5052, 5029, 5006, 4982, 4959, 4936,
    4913, 4890, 4868, 4845, 4822, 4799, 4776, 4753, 4731, 4708, 4685, 4663, 4640, 4618, 4595, 4573,
    4550, 4528, 4506, 4483, 4461, 4439, 4417, 4395, 4372, 4350, 4328, 4307, 4285, 4263, 4241, 4219,
    4197, 4176, 4154, 4133, 4111, 4090, 4068, 4047, 4026, 4004, 3983, 3962, 3941, 3920, 3899, 3878,
    3857, 3836, 3815, 3794, 3774, 3753, 3733, 3712, 3692, 3671, 3651, 3630, 3610, 3590, 3570, 3550,
    3530, 3510, 3490, 3470, 3450, 3431, 3411, 3391, 3372, 3352, 3333, 3314, 3294, 3275, 3256, 3237,
    3218, 3199, 3180, 3161, 3142, 3124, 3105, 3086, 3068, 3049, 3031, 3013, 2994, 2976, 2958, 2940,
    2922, 2904, 2886, 2868, 2851, 2833, 2815, 2798, 2780, 2763, 2746, 2728, 2711, 2694, 2677, 2660,
    2643, 2626, 2609, 2593, 2576, 2559, 2543, 2526, 2510, 2494, 2477, 2461, 2445, 2429, 2413, 2397,
    2381, 2365, 2350, 2334, 2318, 2303, 2287, 2272, 2257, 2242, 2226, 2211, 2196, 2181, 2166, 2152,
    2137, 2122, 2107, 2093, 2078, 2064, 2050, 2035, 2021, 2007, 1993, 1979, 1965, 1951, 1937, 1924,
    1910, 1896, 1883, 1869, 1856, 1843, 1829, 1816, 1803, 1790, 1777, 1764, 1751, 1739, 1726, 1713,
    1701, 1688, 1676, 1663, 1651, 1639, 1626, 1614, 1602, 1590, 1578, 1566, 1555, 1543, 1531, 1520,
    1508, 1497, 1485, 1474, 1463, 1451, 1440, 1429, 1418, 1407, 1396, 1385, 1375, 1364, 1353, 1343,
    1332, 1322, 1311, 1301, 1291, 1281, 1270, 1260, 1250, 1240, 1230, 1221, 1211, 1201, 1191, 1182,
    1172, 1163, 1153, 1144, 1135, 1125, 1116, 1107, 1098, 1089, 1080, 1071, 1062, 1053, 1045, 1036,
    1027, 1019, 1010, 1002, 993, 985, 977, 969, 960, 952, 944, 936, 928, 920, 912, 905,
    897, 889, 882, 874, 866, 859, 852, 844, 837, 830, 822, 815, 808, 801, 794, 787,
    780, 773, 766, 759, 753, 746, 739, 733, 726, 720, 713, 707, 700, 694, 688, 682,
    676, 669, 663, 657, 651, 645, 639, 634, 628, 622, 616, 611, 605, 599, 594, 588,
    583, 577, 572, 567, 561, 556, 551, 546, 541, 535, 530, 525, 520, 515, 511, 506,
    501, 496, 491, 487, 482, 477, 473, 468, 464, 459, 455, 450, 446, 442, 437, 433,
    429, 425, 420, 416, 412, 408, 404, 400, 396, 392, 388, 384, 381, 377, 373, 369,
    366, 362, 358, 355, 351, 347, 344, 340, 337, 334, 330, 327, 323, 320, 317, 314,
    310, 307, 304, 301, 298, 295, 292, 289, 286, 283, 280, 277, 274, 271, 268, 265,
    263, 260, 257, 254, 252, 249, 246, 244, 241, 239, 236, 234, 231, 229, 226, 224,
    221, 219, 217, 214, 212, 210, 207, 205, 203, 201, 198, 196, 194, 192, 190, 188,
    186, 184, 182, 180, 178, 176, 174, 172, 170, 168, 166, 164, 162, 161, 159, 157,
    155, 154, 152, 150, 148, 147, 145, 143, 142, 140, 139, 137, 135, 134, 132, 131,
    129, 128, 126, 125, 123, 122, 121, 119, 118, 116, 115, 114, 112, 111
>>

BilateralWindow == {d \in Window(5) : d[1] * d[1] + d[2] * d[2] <= 4}

BilateralFilter(img) ==
    WithPx(img, [p \in Pos(img) |->
        LET c == img.px[p]
            nb == [d \in BilateralWindow |->
                     img.px[Reflect101(img, <<p[1] + d[1], p[2] + d[2]>>)]]
            wt == [d \in BilateralWindow |->
                     ColourWeight[Abs(nb[d][1] - c[1]) + Abs(nb[d][2] - c[2])
                                  + Abs(nb[d][3] - c[3]) + 1]]
            wsum == SumOver(BilateralWindow, wt)
            Mean(k) == (2 * SumOver(BilateralWindow,
                                    [d \in BilateralWindow |-> wt[d] * nb[d][k]])
                        + wsum) \div (2 * wsum)
        IN  IF \A d \in BilateralWindow : nb[d] = c THEN c
            ELSE <<Mean(1), Mean(2), Mean(3)>>])

\* cv2.addWeighted(a, 0.5, b, 0.5, 0) on three-channel rasters: the rounded
\* (half to even) mean of the two pixels, per channel.
HalfSum(u, v) == IF (u + v) % 2 = 0 THEN (u + v) \div 2
                 ELSE IF ((u + v - 1) \div 2) % 2 = 0 THEN (u + v - 1) \div 2
                 ELSE (u + v + 1) \div 2

AddWeightedHalf(a, b) ==
    WithPx(a, [p \in Pos(a) |-> <<HalfSum(a.px[p][1], b.px[p][1]),
                                  HalfSum(a.px[p][2], b.px[p][2]),
                                  HalfSum(a.px[p][3], b.px[p][3])>>])

---------------------------------------------------------------------------
(* Contours *)

(***************************************************************************)
(* cv2.findContours(bin, RETR_TREE, CHAIN_APPROX_NONE) follows the borders *)
(* of the 8-connected components of the non-zero pixels: one outer border  *)
(* per component and one hole border per hole (a 4-connected region of the *)
(* component's complement that does not reach the raster's edge).  A       *)
(* border consists of the component's pixels that have a 4-neighbour in    *)
(* the region the border faces.  A contour is kept here as                 *)
(*   [border |-> its points, fill |-> the pixels cv2.drawContours(...,     *)
(*    FILLED) paints: the border and everything it encloses].              *)
(* cv2.contourArea is the area of the polygon through the border points;   *)
(* by Pick's theorem it is  fill - border/2 - 1  pixels for a border that  *)
(* passes each of its points once (every contour of the scenes below).     *)
(* Areas are kept doubled, so that half pixels stay integers.              *)
(***************************************************************************)

RECURSIVE Grow(_, _, _, _)
Grow(S, done, frontier, eight) ==
    IF frontier = {} THEN done
    ELSE LET nxt == ((UNION {IF eight THEN N8(p) ELSE N4(p) : p \in frontier})
                     \cap S) \ done
         IN  Grow(S, done \cup nxt, nxt, eight)

RECURSIVE Components(_, _)
Components(S, eight) ==
    IF S = {} THEN {}
    ELSE LET seed == CHOOSE p \in S : TRUE
             C == Grow(S, {seed}, {seed}, eight)
         IN  {C} \cup Components(S \ C, eight)

ContoursOf(img, C) ==
    LET K == Pos(img) \ C
        edge == {p \in K : p[1] = 0 \/ p[1] = img.cols - 1
                           \/ p[2] = 0 \/ p[2] = img.rows - 1}
        outside == Grow(K, edge, edge, FALSE)
        Facing(G) == {p \in C : N4(p) \cap G # {}}
        outer == [border |-> {p \in C : \E n \in N4(p) :
                                          ~InImg(img, n) \/ n \in outside},
                  fill |-> Pos(img) \ outside]
    IN  {outer} \cup {[border |-> Facing(G), fill |-> G \cup Facing(G)] :
                        G \in Components(K \ outside, FALSE)}

FindContours(img) ==
    UNION {ContoursOf(img, C) : C \in Components(NonZero(img), TRUE)}

\* 2 * cv2.contourArea(c)
ContourArea2(c) ==
    LET a == 2 * Cardinality(c.fill) - Cardinality(c.border) - 2
    IN  IF a < 0 THEN 0 ELSE a

\* cv2.drawContours(img, [c], -1, colour, cv2.FILLED)
DrawFilled(img, c, colour) ==
    WithPx(img, [p \in Pos(img) |-> IF p \in c.fill THEN colour ELSE img.px[p]])

\* cv2.drawContours(img, contours, -1, colour, 1): the borders, one pixel wide.
DrawOutlines(img, cs, colour) ==
    WithPx(img, [p \in Pos(img) |->
        IF \E i \in 1..Len(cs) : p \in cs[i].border THEN colour ELSE img.px[p]])

\* All the orders in which a finite set can be listed.
Orderings(S) ==
    {s \in [1..Cardinality(S) -> S] : \A i, j \in 1..Cardinality(S) : s[i] = s[j] => i = j}

---------------------------------------------------------------------------
(* Input rasters of the modelled scenes *)

Blank(rows, cols, colour) ==
    Raster(rows, cols, [p \in (0..(cols - 1)) \X (0..(rows - 1)) |-> colour])

PaintRect(img, x0, x1, y0, y1, colour) ==
    WithPx(img, [p \in Pos(img) |->
        IF x0 <= p[1] /\ p[1] <= x1 /\ y0 <= p[2] /\ p[2] <= y1
        THEN colour ELSE img.px[p]])

\* A local that holds no raster (before its assignment, after the return).
NoRaster == [rows |-> 0, cols |-> 0, px |-> <<>>]

\* Python's None: what a function returns that ends without a return
\* statement, and what cv2.imread returns for a file it cannot read.
None == NoRaster

\* An exception that left the called function.
Raised(exception) == [exception |-> exception]

\* Whether two rasters have the same height and width.
SameShape(a, b) == a.rows = b.rows /\ a.cols = b.cols

WhiteSheet == Blank(Rows, Cols, White)

\* Property boundary maps: black lines on white.
\*   BoundaryVLine    one line, two parcels of 10 and 11 columns
\*   BoundaryVLineDot the same with a small black blob in either parcel
\*   BoundaryCross    two lines, the upper left parcel 11 x 11 pixels
BoundaryVLine == PaintRect(WhiteSheet, 10, 10, 0, Rows - 1, Black)

BoundaryVLineDot ==
    PaintRect(PaintRect(BoundaryVLine, 15, 17, 4, 6, Black), 3, 5, 8, 10, Black)

BoundaryCross ==
    PaintRect(PaintRect(WhiteSheet, 11, 11, 0, Rows - 1, Black), 0, Cols - 1, 11, 11, Black)

BoundaryScenes == {WhiteSheet, BoundaryVLine, BoundaryVLineDot, BoundaryCross}

\* Route maps: public routes are drawn green on white.
\*   RoutesOne    a single pixel at the dark corner of the green range
\*   RoutesNear   a single pixel just outside the green range
\*   RoutesBoth   a green route in either parcel
\*   RoutesRight  a green route in the right parcel, a red one in the left
RoutesOne == PaintRect(WhiteSheet, 4, 4, 4, 4, <<30, 150, 30>>)

RoutesNear == PaintRect(WhiteSheet, 4, 4, 4, 4, <<31, 255, 0>>)

RoutesBoth == PaintRect(PaintRect(WhiteSheet, 2, 6, 5, 5, Green), 14, 19, 8, 8, Green)

RoutesRight == PaintRect(PaintRect(WhiteSheet, 2, 6, 5, 5, Red), 14, 19, 8, 8, Green)

RouteScenes == {WhiteSheet, RoutesOne, RoutesNear, RoutesBoth, RoutesRight}

\* Detailed administrative base maps: a white sheet, and a sheet with a
\* black outline, a brown path, a green and a blue patch and grey lettering.
Brown == <<205, 220, 235>>
MapGreen == <<210, 240, 220>>
MapBlue == <<255, 240, 220>>
Grey == <<120, 120, 120>>

BaseDrawn ==
    PaintRect(PaintRect(PaintRect(PaintRect(PaintRect(WhiteSheet,
        0, 9, 3, 3, Brown), 13, 16, 2, 4, MapGreen), 17, 20, 8, 10, MapBlue),
        3, 4, 9, 9, Grey), 10, 10, 0, Rows - 1, Black)

BaseScenes == {WhiteSheet, BaseDrawn}

---------------------------------------------------------------------------
(* State *)

VARIABLES
    mode,             \* the function the notebook calls
    pc,               \* the statement the call has reached
    caller,           \* the rasters the caller owns (the arguments it passes)
    alias,            \* the locals that still name one of the caller's rasters
    amBaseMap, boundariesImage, routesImage,      \* locals of the filters,
    boundariesGrey, boundariesBinary,             \* named as in the source
    contours, idx,
    satellite, amBaseMapBinary, binaryImage, green_mask,
    amDetailed, structures,
    found,            \* what cv2.findContours returned, before the area filter
    fills,            \* the cv2.drawContours(..., FILLED) calls made so far
    labels,           \* what each loop iteration decided about its contour
    written,          \* the files cv2.imwrite wrote, in order, with contents
    ret               \* the value the called function returned

\* The arguments and locals of the segmentation functions, and their logs.
filterVars == <<caller, alias, amBaseMap, boundariesImage, routesImage,
                boundariesGrey, boundariesBinary, contours, idx, satellite,
                amBaseMapBinary, binaryImage, green_mask, amDetailed,
                structures, found, fills, labels, written, ret>>

VARIABLES
    shapesMask, groundTruthMask,    \* locals of evaluation.compare, named as
    resultMap,                      \* in the source; the loop indices i and j
    cmp_i, cmp_j,                   \* are cmp_i and cmp_j
    tp, fp, fn, tn,
    precision, recall, accuracy     \* <<numerator, denominator>>

cmpVars == <<shapesMask, groundTruthMask, resultMap, cmp_i, cmp_j,
             tp, fp, fn, tn, precision, recall, accuracy>>

VARIABLES
    fetcher,                        \* the module whose getTiles runs
    xMin, xMax, yMin, yMax,         \* locals of getTiles, named as in the
    tileX, tileY,                   \* source; the loop indices x and y are
    totalTiles, status,             \* tileX and tileY; status is the count
                                    \* the progress bar shows
    requests,                       \* the requests.get calls made, in order
    printed,                        \* the "Error downloading" lines printed
    tileFiles,                      \* the tile files opened for writing
    fault                           \* the exception that left getTiles, if any

tileVars == <<fetcher, xMin, xMax, yMin, yMax, tileX, tileY, totalTiles,
              status, requests, printed, tileFiles, fault>>

VARIABLES
    disk,                           \* the files and directories that exist,
                                    \* each path with its content
    console,                        \* what print wrote, in order
    response                        \* what requests.get returned

ioVars == <<disk, console, response>>

VARIABLES
    projectName, resolution, zoom,  \* the arguments of createDirectory
    outputDir                       \* its local, the path it assembles

dirVars == <<projectName, resolution, zoom, outputDir>>

VARIABLES
    minXC, minYC, maxXC, maxYC      \* the coordinates given to getTiles of
                                    \* dataprepDataforsyningen

convVars == <<minXC, minYC, maxXC, maxYC>>

vars == <<mode, pc, filterVars, cmpVars, tileVars, ioVars, dirVars, convVars>>

\* No call of getTiles of dataprepDataforsyningen is in progress.
IdleConv == minXC = 0 /\ minYC = 0 /\ maxXC = 0 /\ maxYC = 0

\* No call of createDirectory is in progress.
IdleDirs ==
    /\ projectName = ""
    /\ resolution = 0
    /\ zoom = 0
    /\ outputDir = ""

\* No file, nothing printed, no request made.
NoResponse == [status_code |-> 0, url |-> <<>>, content |-> <<>>]

IdleIO ==
    /\ disk = <<>>
    /\ console = <<>>
    /\ response = NoResponse

\* No call of compare is in progress.
IdleCompare ==
    /\ shapesMask = [rows |-> 0, cols |-> 0, px |-> <<>>]
    /\ groundTruthMask = [rows |-> 0, cols |-> 0, px |-> <<>>]
    /\ resultMap = [rows |-> 0, cols |-> 0, px |-> <<>>]
    /\ cmp_i = 0 /\ cmp_j = 0
    /\ tp = 0 /\ fp = 0 /\ fn = 0 /\ tn = 0
    /\ precision = <<0, 1>> /\ recall = <<0, 1>> /\ accuracy = <<0, 1>>

\* No call of getTiles is in progress.
IdleTiles ==
    /\ fetcher = "none"
    /\ xMin = 0 /\ xMax = 0 /\ yMin = 0 /\ yMax = 0
    /\ tileX = 0 /\ tileY = 0
    /\ totalTiles = 0 /\ status = 0
    /\ requests = <<>> /\ printed = <<>> /\ tileFiles = {}
    /\ fault = "none"

MinContourArea == 100

\* An imwrite whose file is listed before the files written earlier.
ImwriteFirst(name, img) == <<[name |-> name, img |-> img]>> \o written

\* cv2.imwrite(pathResult + name, img)
Imwrite(name, img) == Append(written, [name |-> name, img |-> img])

\* The caller's rasters after an in-place write of value v through a local:
\* a local that still names a caller's raster changes that raster too.
WriteThrough(local, v) ==
    IF local \in DOMAIN alias THEN [caller EXCEPT ![alias[local]] = v] ELSE caller

\* A copy that is left out: the locals keep naming the caller's rasters.
KeepAlias(names) == alias

\* x = x.copy(): the local names a fresh array from now on.
Unalias(names) == [n \in (DOMAIN alias) \ names |-> alias[n]]

\* An area filter that keeps a contour of area exactly 100.
AreaFilterInclusive(cs, img) ==
    SelectSeq(cs, LAMBDA c : ContourArea2(c) < img.rows * img.cols
                             /\ ContourArea2(c) >= 2 * MinContourArea)

\* The contours kept by the area filter of a list cs, for a raster of
\* rows * cols pixels: area < totalPixels / 2 and area > 100.
AreaFilter(cs, img) ==
    LET totalPixels == img.rows * img.cols
    IN  SelectSeq(cs, LAMBDA c : ContourArea2(c) < totalPixels
                                 /\ ContourArea2(c) > 2 * MinContourArea)

---------------------------------------------------------------------------
(* privatePropertyFiltering(amBaseMap, boundariesImage, routesImage, pathResult) *)

CallPrivatePropertyFiltering(base, boundaries, routes) ==
    /\ amBaseMap' = base
    /\ boundariesImage' = boundaries
    /\ routesImage' = routes
    /\ pc' = "ppf_copy"

\* lines 32-34
PPF_Copy ==
    /\ pc = "ppf_copy"
    /\ None \notin {amBaseMap, boundariesImage, routesImage}
    /\ alias' = Unalias({"amBaseMap", "boundariesImage", "routesImage"})
    /\ pc' = "ppf_binarize"
    /\ UNCHANGED <<convVars, dirVars, ioVars, cmpVars, tileVars, mode, caller, amBaseMap,
                   boundariesImage, routesImage, boundariesGrey,
                   boundariesBinary, contours, idx, satellite,
                   amBaseMapBinary, binaryImage, green_mask, amDetailed,
                   structures, found, fills, labels, written, ret>>

\* lines 37-42
PPF_Binarize ==
    /\ pc = "ppf_binarize"
    /\ boundariesGrey' = BGR2GRAY(boundariesImage)
    /\ boundariesBinary' = ThresholdOtsu(boundariesGrey')
    /\ written' = Imwrite("/subresults/001_Boundary.png", boundariesBinary')
    /\ pc' = "ppf_dilate"
    /\ UNCHANGED <<convVars, dirVars, ioVars, cmpVars, tileVars, mode, caller, alias, amBaseMap,
                   boundariesImage, routesImage, contours, idx, satellite,
                   amBaseMapBinary, binaryImage, green_mask, amDetailed,
                   structures, found, fills, labels, ret>>

\* lines 45-50
PPF_Dilate ==
    /\ pc = "ppf_dilate"
    /\ boundariesBinary' =
           BitwiseNot(Dilate(BitwiseNot(boundariesBinary), RectKernel(2, 2)))
    /\ written' = Imwrite("/subresults/002_Boundary_dialated.png", boundariesBinary')
    /\ pc' = "ppf_contours"
    /\ UNCHANGED <<convVars, dirVars, ioVars, cmpVars, tileVars, mode, caller, alias, amBaseMap,
                   boundariesImage, routesImage, boundariesGrey, contours,
                   idx, satellite, amBaseMapBinary, binaryImage, green_mask,
                   amDetailed, structures, found, fills, labels, ret>>

\* lines 53-64: the contours come in an order the library decides.
PPF_FindContours ==
    /\ pc = "ppf_contours"
    /\ found' = FindContours(boundariesBinary)
    /\ \E order \in Orderings(found') :
           contours' = AreaFilter(order, boundariesImage)
    /\ idx' = 1
    /\ pc' = "ppf_loop"
    /\ UNCHANGED <<convVars, dirVars, ioVars, cmpVars, tileVars, mode, caller, alias, amBaseMap,
                   boundariesImage, routesImage, boundariesGrey,
                   boundariesBinary, satellite, amBaseMapBinary, binaryImage,
                   green_mask, amDetailed, structures, fills, labels,
                   written, ret>>

\* A count of the green pixels of the whole route raster, whatever the contour.
GreenMaskPixelCountUnmasked(routes, grey, c) ==
    CountNonZero(InRange(routes, <<0, 150, 0>>, <<30, 255, 30>>))

\* lines 70-78: the number of green pixels of the route raster inside contour c.
GreenMaskPixelCount(routes, grey, c) ==
    LET contourMask == DrawFilled(ZerosLike(grey), c, 255)
        boundariesRegion == MaskedColour(routes, contourMask)
        greenMask == InRange(boundariesRegion, <<0, 150, 0>>, <<30, 255, 30>>)
    IN  CountNonZero(greenMask)

\* A fill colour that makes every contour public.
FillColourAlwaysGreen(greenMaskPixelCount) == Green

\* lines 81-86
FillColour(greenMaskPixelCount) == IF greenMaskPixelCount > 0 THEN Green ELSE Red

\* lines 67-89, one iteration
PPF_Classify ==
    /\ pc = "ppf_loop"
    /\ idx <= Len(contours)
    /\ SameShape(routesImage, boundariesGrey)
    /\ LET contour == contours[idx]
           color == FillColour(GreenMaskPixelCount(routesImage, boundariesGrey, contour))
       IN  /\ boundariesImage' = DrawFilled(boundariesImage, contour, color)
           /\ caller' = WriteThrough("boundariesImage", boundariesImage')
           /\ fills' = Append(fills, [fn |-> "privatePropertyFiltering",
                                   contour |-> contour, color |-> color])
           /\ labels' = Append(labels, [fn |-> "privatePropertyFiltering",
                                     contour |-> contour,
                                     label |-> IF color = Green THEN "public"
                                               ELSE "private"])
    /\ idx' = idx + 1
    /\ UNCHANGED <<convVars, dirVars, ioVars, cmpVars, tileVars, mode, pc, alias, amBaseMap,
                   routesImage, boundariesGrey, boundariesBinary, contours,
                   satellite, amBaseMapBinary, binaryImage, green_mask,
                   amDetailed, structures, found, written, ret>>

\* line 91, after the loop
PPF_WriteContour ==
    /\ pc = "ppf_loop"
    /\ idx > Len(contours)
    /\ written' = Imwrite("/subresults/003_Boundary_Contour.png", boundariesImage)
    /\ pc' = "ppf_blur"
    /\ UNCHANGED <<convVars, dirVars, ioVars, cmpVars, tileVars, mode, caller, alias, amBaseMap,
                   boundariesImage, routesImage, boundariesGrey,
                   boundariesBinary, contours, idx, satellite,
                   amBaseMapBinary, binaryImage, green_mask, amDetailed,
                   structures, found, fills, labels, ret>>

\* lines 94-98
PPF_Blur ==
    /\ pc = "ppf_blur"
    /\ boundariesImage' = MedianBlur3(boundariesImage, 7)
    /\ alias' = Unalias({"boundariesImage"})
    /\ written' = Imwrite("/subresults/004_Boundary_Contour_Blurred.png", boundariesImage')
    /\ pc' = "ppf_result"
    /\ UNCHANGED <<convVars, dirVars, ioVars, cmpVars, tileVars, mode, caller, amBaseMap, routesImage,
                   boundariesGrey, boundariesBinary, contours, idx,
                   satellite, amBaseMapBinary, binaryImage, green_mask,
                   amDetailed, structures, found, fills, labels, ret>>

\* The public mask itself in place of its complement.
FilteredBoundariesNotInverted(blurred) ==
    InRange(BGR2HSV(blurred), <<40, 40, 40>>, <<80, 255, 255>>)

\* lines 101-106: 255 where the blurred boundary raster is not HSV-green.
FilteredBoundaries(blurred) ==
    BitwiseNot(InRange(BGR2HSV(blurred), <<40, 40, 40>>, <<80, 255, 255>>))

\* lines 101-113
PPF_Result ==
    /\ pc = "ppf_result"
    /\ SameShape(amBaseMap, boundariesImage)
    /\ LET filteredBoundaries == FilteredBoundaries(boundariesImage)
           result == AssignWhere(amBaseMap, filteredBoundaries, 255, Red)
       IN  /\ caller' = WriteThrough("amBaseMap", result)
           /\ written' = Imwrite("/subresults/005_Result.png", result)
           /\ ret' = result
    /\ pc' = "ppf_return"
    /\ amBaseMap' = NoRaster
    /\ boundariesImage' = NoRaster
    /\ routesImage' = NoRaster
    /\ boundariesGrey' = NoRaster
    /\ boundariesBinary' = NoRaster
    /\ contours' = <<>>
    /\ idx' = 0
    /\ alias' = <<>>
    /\ UNCHANGED <<convVars, dirVars, ioVars, cmpVars, tileVars, mode, satellite, amBaseMapBinary,
                   binaryImage, green_mask, amDetailed, structures, found,
                   fills, labels>>

\* The notebook calls privatePropertyFiltering on rasters it loaded.
Notebook_PrivatePropertyFiltering ==
    /\ pc = "call"
    /\ mode = "privatePropertyFiltering"
    /\ CallPrivatePropertyFiltering(caller.base, caller.boundaries, caller.routes)
    /\ alias' = [n \in {"amBaseMap", "boundariesImage", "routesImage"} |->
                   CASE n = "amBaseMap" -> "base"
                     [] n = "boundariesImage" -> "boundaries"
                     [] n = "routesImage" -> "routes"]
    /\ UNCHANGED <<convVars, dirVars, ioVars, cmpVars, tileVars, mode, caller, boundariesGrey,
                   boundariesBinary, contours, idx, satellite,
                   amBaseMapBinary, binaryImage, green_mask, amDetailed,
                   structures, found, fills, labels, written, ret>>

PPF_Steps ==
    \/ PPF_Copy
    \/ PPF_Binarize
    \/ PPF_Dilate
    \/ PPF_FindContours
    \/ PPF_Classify
    \/ PPF_WriteContour
    \/ PPF_Blur
    \/ PPF_Result

IdleFilters ==
    /\ alias = <<>>
    /\ amBaseMap = NoRaster
    /\ boundariesImage = NoRaster
    /\ routesImage = NoRaster
    /\ boundariesGrey = NoRaster
    /\ boundariesBinary = NoRaster
    /\ contours = <<>>
    /\ idx = 0
    /\ satellite = NoRaster
    /\ amBaseMapBinary = NoRaster
    /\ binaryImage = NoRaster
    /\ green_mask = NoRaster
    /\ amDetailed = NoRaster
    /\ structures = NoRaster
    /\ found = {}
    /\ fills = <<>>
    /\ labels = <<>>
    /\ written = <<>>
    /\ ret = NoRaster

IdleLocals == IdleFilters /\ IdleCompare /\ IdleTiles /\ IdleIO /\ IdleDirs /\ IdleConv

InitPPF ==
    /\ mode = "privatePropertyFiltering"
    /\ pc = "call"
    /\ caller \in [base : BaseScenes, boundaries : BoundaryScenes,
                   routes : RouteScenes, satellite : {NoRaster},
                   structures : {NoRaster}]
    /\ IdleLocals

NextPPF == Notebook_PrivatePropertyFiltering \/ PPF_Steps

SpecPPF == InitPPF /\ [][NextPPF]_vars

---------------------------------------------------------------------------
(* Properties of privatePropertyFiltering *)

\* Whether a contour was dropped by the area filter of a raster of n pixels.
Excluded(c, n) == ~(2 * 100 < ContourArea2(c) /\ ContourArea2(c) < n)

IsRouteGreen(c) == /\ 0 <= c[1] /\ c[1] <= 30
                   /\ 150 <= c[2] /\ c[2] <= 255
                   /\ 0 <= c[3] /\ c[3] <= 30

PPFFills == SelectSeq(fills, LAMBDA f : f.fn = "privatePropertyFiltering")

\* C1: in privatePropertyFiltering every contour that passed the area filter
\* is filled once, in one colour: green if and only if the route raster has
\* at least one pixel of the green range (0,150,0)-(30,255,30) inside the
\* contour's filled interior, red otherwise.
C1_FillGreenIffRouteGreen ==
    /\ \A i \in 1..Len(PPFFills) :
         LET f == PPFFills[i]
         IN  f.color = IF \E p \in f.contour.fill : IsRouteGreen(caller.routes.px[p])
                       THEN Green ELSE Red
    /\ pc = "ppf_loop" =>
         /\ Len(PPFFills) = idx - 1
         /\ \A i \in 1..(idx - 1) : PPFFills[i].contour = contours[i]
         /\ idx > 1 => \A p \in contours[idx - 1].fill :
                          boundariesImage.px[p] = PPFFills[idx - 1].color

\* A parcel made public by a single green pixel, beside a private parcel.
C1_Witness ==
    /\ pc = "ppf_loop"
    /\ idx > Len(contours)
    /\ \E i, j \in 1..Len(PPFFills) :
         /\ PPFFills[i].color = Green
         /\ Cardinality({p \in PPFFills[i].contour.fill :
                           IsRouteGreen(caller.routes.px[p])}) = 1
         /\ PPFFills[j].color = Red

\* The public mask of privatePropertyFiltering: where the blurred boundary
\* raster (artifact 004) is green in HSV, H 40..80, S and V 40..255.
IsPublic(blurred, p) ==
    LET c == HSV(blurred.px[p])
    IN  40 <= c[1] /\ c[1] <= 80 /\ 40 <= c[2] /\ 40 <= c[3]

PPFReturned == mode = "privatePropertyFiltering" /\ pc = "ppf_return"

\* C3 as stated: after privatePropertyFiltering the base-map pixels inside a
\* contour that the area filter excluded are those of the input base map.
C3_ExcludedPixelsUnmodified ==
    PPFReturned =>
        \A c \in found :
            Excluded(c, caller.boundaries.rows * caller.boundaries.cols) =>
                \A p \in c.fill : ret.px[p] = caller.base.px[p]

\* C3 amended: a contour that the area filter excluded gets no fill of its
\* own, and a base-map pixel inside it is unmodified exactly where the
\* blurred boundary raster is HSV-green (the public mask); every other
\* pixel inside it is recoloured red.
C3_ExcludedPixelsRedUnlessPublic ==
    PPFReturned =>
        \A c \in found :
            Excluded(c, caller.boundaries.rows * caller.boundaries.cols) =>
                /\ \A i \in 1..Len(PPFFills) : PPFFills[i].contour # c
                /\ \A p \in c.fill :
                     ret.px[p] = IF IsPublic(written[4].img, p)
                                 THEN caller.base.px[p] ELSE Red

\* An excluded contour lying in a public parcel keeps its base-map pixels,
\* one lying in a private parcel has them recoloured.
C3_Witness ==
    /\ PPFReturned
    /\ \E c, d \in found :
         /\ Excluded(c, caller.boundaries.rows * caller.boundaries.cols)
         /\ Excluded(d, caller.boundaries.rows * caller.boundaries.cols)
         /\ \A p \in c.fill : ret.px[p] = caller.base.px[p] /\ ret.px[p] # Red
         /\ \E p \in d.fill : ret.px[p] = Red /\ caller.base.px[p] # Red

---------------------------------------------------------------------------
(* routeAndVegFiltering(amBaseMap, routesImage, satellite, pathResult) *)

CallRouteAndVegFiltering(base, routes, sat) ==
    /\ amBaseMap' = base
    /\ routesImage' = routes
    /\ satellite' = sat
    /\ pc' = "rvf_copy"

\* lines 163-164: the satellite raster is not copied.
RVF_Copy ==
    /\ pc = "rvf_copy"
    /\ None \notin {amBaseMap, routesImage}
    /\ alias' = Unalias({"amBaseMap", "routesImage"})
    /\ pc' = "rvf_colours"
    /\ UNCHANGED <<convVars, dirVars, ioVars, cmpVars, tileVars, mode, caller, amBaseMap,
                   boundariesImage, routesImage, boundariesGrey,
                   boundariesBinary, contours, idx, satellite,
                   amBaseMapBinary, binaryImage, green_mask, amDetailed,
                   structures, found, fills, labels, written, ret>>

\* lines 167-181: the masks of the brown, green and blue colour ranges.
BrownMask(img) == InRange(img, <<200, 215, 230>>, <<210, 230, 240>>)

GreenMask(img) == InRange(img, <<205, 230, 210>>, <<220, 255, 235>>)

BlueMask(img) == InRange(img, <<250, 235, 215>>, <<255, 245, 225>>)

\* lines 184-185
CombinedMask(img) == BitwiseOr(BitwiseOr(BrownMask(img), GreenMask(img)), BlueMask(img))

\* lines 195-198: non_matching_pixels_mask is the inverted combined mask, and
\* the pixels where it is 0 are set to white.
Whiten(img) ==
    LET non_matching_pixels_mask == BitwiseNot(CombinedMask(img))
    IN  AssignWhere(img, non_matching_pixels_mask, 0, White)

\* lines 167-200
RVF_FilterColours ==
    /\ pc = "rvf_colours"
    /\ green_mask' = GreenMask(amBaseMap)
    /\ amBaseMap' = Whiten(amBaseMap)
    /\ caller' = WriteThrough("amBaseMap", amBaseMap')
    /\ written' = written \o
          <<[name |-> "/subresults/008_Filtering_Blue_Mask.png", img |-> BlueMask(amBaseMap)],
            [name |-> "/subresults/009_Filtering_Brown_Mask.png", img |-> BrownMask(amBaseMap)],
            [name |-> "/subresults/010_Filtering_Green_Mask.png", img |-> GreenMask(amBaseMap)],
            [name |-> "/subresults/011_Filtering_Combined_Mask.png", img |-> CombinedMask(amBaseMap)],
            [name |-> "/subresults/012_Filtering_Result.png", img |-> amBaseMap']>>
    /\ pc' = "rvf_bilateral"
    /\ UNCHANGED <<convVars, dirVars, ioVars, cmpVars, tileVars, mode, alias, boundariesImage,
                   routesImage, boundariesGrey, boundariesBinary, contours,
                   idx, satellite, amBaseMapBinary, binaryImage, amDetailed,
                   structures, found, fills, labels, ret>>

\* lines 203-205
RVF_Bilateral ==
    /\ pc = "rvf_bilateral"
    /\ amBaseMap' = BilateralFilter(amBaseMap)
    /\ alias' = Unalias({"amBaseMap"})
    /\ written' = Imwrite("/subresults/013_Filtering_Noise_Reduced.png", amBaseMap')
    /\ pc' = "rvf_binary"
    /\ UNCHANGED <<convVars, dirVars, ioVars, cmpVars, tileVars, mode, caller, boundariesImage,
                   routesImage, boundariesGrey, boundariesBinary, contours,
                   idx, satellite, amBaseMapBinary, binaryImage, green_mask,
                   amDetailed, structures, found, fills, labels, ret>>

\* lines 208-213
RVF_Binary ==
    /\ pc = "rvf_binary"
    /\ amBaseMapBinary' = ThresholdBinary(BGR2GRAY(amBaseMap), 245)
    /\ written' = Imwrite("/subresults/014_Filtering_Binary.png", amBaseMapBinary')
    /\ pc' = "rvf_lines"
    /\ UNCHANGED <<convVars, dirVars, ioVars, cmpVars, tileVars, mode, caller, alias, amBaseMap,
                   boundariesImage, routesImage, boundariesGrey,
                   boundariesBinary, contours, idx, satellite, binaryImage,
                   green_mask, amDetailed, structures, found, fills, labels,
                   ret>>

\* lines 216-225
RVF_EnhanceLines ==
    /\ pc = "rvf_lines"
    /\ amBaseMapBinary' =
           BitwiseNot(Dilate(BitwiseNot(amBaseMapBinary), EllipseKernel2))
    /\ written' = Imwrite("/subresults/015_Enhanced_Lines.png", amBaseMapBinary')
    /\ pc' = "rvf_contours"
    /\ UNCHANGED <<convVars, dirVars, ioVars, cmpVars, tileVars, mode, caller, alias, amBaseMap,
                   boundariesImage, routesImage, boundariesGrey,
                   boundariesBinary, contours, idx, satellite, binaryImage,
                   green_mask, amDetailed, structures, found, fills, labels,
                   ret>>

\* lines 228-239: the contours come in an order the library decides.
RVF_FindContours ==
    /\ pc = "rvf_contours"
    /\ found' = FindContours(amBaseMapBinary)
    /\ \E order \in Orderings(found') :
           contours' = AreaFilter(order, amBaseMap)
    /\ pc' = "rvf_routes"
    /\ UNCHANGED <<convVars, dirVars, ioVars, cmpVars, tileVars, mode, caller, alias, amBaseMap,
                   boundariesImage, routesImage, boundariesGrey,
                   boundariesBinary, idx, satellite, amBaseMapBinary,
                   binaryImage, green_mask, amDetailed, structures, fills,
                   labels, written, ret>>

\* lines 242-248: 255 on the drawn route lines, 0 on the near-white ground.
RVF_RoutesBinary ==
    /\ pc = "rvf_routes"
    /\ binaryImage' = BitwiseNot(ThresholdBinary(BGR2GRAY(routesImage), 240))
    /\ written' = Imwrite("/subresults/016_Routes_Binary.png", binaryImage')
    /\ pc' = "rvf_satellite"
    /\ UNCHANGED <<convVars, dirVars, ioVars, cmpVars, tileVars, mode, caller, alias, amBaseMap,
                   boundariesImage, routesImage, boundariesGrey,
                   boundariesBinary, contours, idx, satellite,
                   amBaseMapBinary, green_mask, amDetailed, structures,
                   found, fills, labels, ret>>

\* lines 251-258: the HSV bounds are (85/2, 5, 5) and (145/2, 250, 250); the
\* hue bounds are compared doubled, 85 <= 2h <= 145.
SatelliteGreenMask(sat) ==
    WithPx(sat, [p \in Pos(sat) |->
        LET c == HSV(sat.px[p])
        IN  IF /\ 85 <= 2 * c[1] /\ 2 * c[1] <= 145
               /\ 5 <= c[2] /\ c[2] <= 250
               /\ 5 <= c[3] /\ c[3] <= 250
            THEN 255 ELSE 0])

\* lines 251-260
RVF_SatelliteMask ==
    /\ pc = "rvf_satellite"
    /\ satellite # None
    /\ green_mask' = SatelliteGreenMask(satellite)
    /\ written' = Imwrite("/subresults/017_1_Satellite_Green_Mask.png", green_mask')
    /\ pc' = "rvf_erode"
    /\ UNCHANGED <<convVars, dirVars, ioVars, cmpVars, tileVars, mode, caller, alias, amBaseMap,
                   boundariesImage, routesImage, boundariesGrey,
                   boundariesBinary, contours, idx, satellite,
                   amBaseMapBinary, binaryImage, amDetailed, structures,
                   found, fills, labels, ret>>

\* lines 262-267
RVF_Erode ==
    /\ pc = "rvf_erode"
    /\ green_mask' = Erode(green_mask, RectKernel(5, 5))
    /\ written' = Imwrite("/subresults/017_2_Satellite_Green_Mask_Reduced.png", green_mask')
    /\ idx' = 1
    /\ pc' = "rvf_loop"
    /\ UNCHANGED <<convVars, dirVars, ioVars, cmpVars, tileVars, mode, caller, alias, amBaseMap,
                   boundariesImage, routesImage, boundariesGrey,
                   boundariesBinary, contours, satellite, amBaseMapBinary,
                   binaryImage, amDetailed, structures, found, fills, labels,
                   ret>>

\* lines 272-281: the pixels of the filled contour and the route-line pixels
\* among them.
TotalPixelCount(routesBinary, c) ==
    CountNonZero(DrawFilled(ZerosLike(routesBinary), c, 255))

WhitePixelCount(routesBinary, c) ==
    CountNonZero(BitwiseAnd(routesBinary, DrawFilled(ZerosLike(routesBinary), c, 255)))

\* lines 294-301: the pixels of the eroded vegetation mask inside the contour.
GreenPixelCount(greenMask, c) ==
    CountNonZero(BitwiseAnd(greenMask, DrawFilled(ZerosLike(greenMask), c, 255)))

\* A road check at one percent in place of one per mille.
IsRoadAboveOnePercent(whitePixelCount, totalPixelCount) ==
    100 * whitePixelCount > totalPixelCount

\* line 284: whitePixelCount / totalPixelCount > 0.001.  Both counts are
\* below 2^31, so the quotient of the two floats differs from the rational
\* by far less than its distance to 0.001 unless it equals 1/1000, and the
\* comparison is that of the rationals.
IsRoad(whitePixelCount, totalPixelCount) == 1000 * whitePixelCount > totalPixelCount

\* A vegetation check that accepts exactly 10%.
IsVegetationInclusive(greenPixelCount, totalPixelCount) ==
    10 * greenPixelCount >= totalPixelCount

\* lines 304-307: greenCoverage = greenPixelCount / totalPixelCount > 0.10.
IsVegetation(greenPixelCount, totalPixelCount) == 10 * greenPixelCount > totalPixelCount

\* lines 269-310, one iteration
RVF_Classify ==
    /\ pc = "rvf_loop"
    /\ idx <= Len(contours)
    /\ TotalPixelCount(binaryImage, contours[idx]) > 0
    /\ LET contour == contours[idx]
           totalPixelCount == TotalPixelCount(binaryImage, contour)
           whitePixelCount == WhitePixelCount(binaryImage, contour)
           greenPixelCount == GreenPixelCount(green_mask, contour)
           road == IsRoad(whitePixelCount, totalPixelCount)
           veg == ~road /\ IsVegetation(greenPixelCount, totalPixelCount)
       IN  /\ amBaseMap' = IF road \/ veg THEN DrawFilled(amBaseMap, contour, Red)
                           ELSE amBaseMap
           /\ caller' = WriteThrough("amBaseMap", amBaseMap')
           /\ fills' = IF road \/ veg
                       THEN Append(fills, [fn |-> "routeAndVegFiltering",
                                           contour |-> contour, color |-> Red])
                       ELSE fills
           /\ labels' = Append(labels,
                  [fn |-> "routeAndVegFiltering", contour |-> contour,
                   label |-> IF road THEN "road"
                             ELSE IF veg THEN "vegetation" ELSE "unclassified",
                   totalPixelCount |-> totalPixelCount,
                   whitePixelCount |-> whitePixelCount,
                   \* the vegetation count exists in the else branch only
                   greenPixelCount |-> IF road THEN -1 ELSE greenPixelCount])
    /\ idx' = idx + 1
    /\ UNCHANGED <<convVars, dirVars, ioVars, cmpVars, tileVars, mode, pc, alias, boundariesImage,
                   routesImage, boundariesGrey, boundariesBinary, contours,
                   satellite, amBaseMapBinary, binaryImage, green_mask,
                   amDetailed, structures, found, written, ret>>

\* lines 313-317, after the loop
RVF_Overlay ==
    /\ pc = "rvf_loop"
    /\ idx > Len(contours)
    /\ SameShape(amBaseMap, routesImage)
    /\ written' = Imwrite("/subresults/018_AM_Roads_Overlay.png",
                          AddWeightedHalf(amBaseMap, routesImage))
    /\ pc' = "rvf_outlines"
    /\ UNCHANGED <<convVars, dirVars, ioVars, cmpVars, tileVars, mode, caller, alias, amBaseMap,
                   boundariesImage, routesImage, boundariesGrey,
                   boundariesBinary, contours, idx, satellite,
                   amBaseMapBinary, binaryImage, green_mask, amDetailed,
                   structures, found, fills, labels, ret>>

\* lines 320-322
RVF_DrawContours ==
    /\ pc = "rvf_outlines"
    /\ written' = Imwrite("/subresults/019_AM_Contours.png",
                          DrawOutlines(amBaseMap, contours, Green))
    /\ pc' = "rvf_otsu"
    /\ UNCHANGED <<convVars, dirVars, ioVars, cmpVars, tileVars, mode, caller, alias, amBaseMap,
                   boundariesImage, routesImage, boundariesGrey,
                   boundariesBinary, contours, idx, satellite,
                   amBaseMapBinary, binaryImage, green_mask, amDetailed,
                   structures, found, fills, labels, ret>>

\* lines 325-334
RVF_FinalBinary ==
    /\ pc = "rvf_otsu"
    /\ binaryImage' = BitwiseNot(ThresholdOtsu(BGR2GRAY(amBaseMap)))
    /\ written' = Imwrite("/subresults/020_AM_Binary.png", binaryImage')
    /\ pc' = "rvf_reduce"
    /\ UNCHANGED <<convVars, dirVars, ioVars, cmpVars, tileVars, mode, caller, alias, amBaseMap,
                   boundariesImage, routesImage, boundariesGrey,
                   boundariesBinary, contours, idx, satellite,
                   amBaseMapBinary, green_mask, amDetailed, structures,
                   found, fills, labels, ret>>

\* lines 337-346
RVF_Reduce ==
    /\ pc = "rvf_reduce"
    /\ LET kernel == RectKernel(4, 4)
           binaryReducedStage1 == MorphClose(MorphOpen(binaryImage, kernel), kernel)
           binaryReducedStage2 == MedianBlur1(binaryReducedStage1, 15)
       IN  /\ written' = written \o
                 <<[name |-> "/subresults/021_AM_Reduced_1.png", img |-> binaryReducedStage1],
                   [name |-> "/subresults/021_AM_Reduced_2.png", img |-> binaryReducedStage2]>>
           /\ ret' = binaryReducedStage2
    /\ pc' = "rvf_return"
    /\ amBaseMap' = NoRaster
    /\ routesImage' = NoRaster
    /\ satellite' = NoRaster
    /\ amBaseMapBinary' = NoRaster
    /\ binaryImage' = NoRaster
    /\ green_mask' = NoRaster
    /\ contours' = <<>>
    /\ idx' = 0
    /\ alias' = <<>>
    /\ UNCHANGED <<convVars, dirVars, ioVars, cmpVars, tileVars, mode, caller, boundariesImage,
                   boundariesGrey, boundariesBinary, amDetailed, structures,
                   found, fills, labels>>

\* The notebook calls routeAndVegFiltering on rasters it loaded.
Notebook_RouteAndVegFiltering ==
    /\ pc = "call"
    /\ mode = "routeAndVegFiltering"
    /\ CallRouteAndVegFiltering(caller.base, caller.routes, caller.satellite)
    /\ alias' = [n \in {"amBaseMap", "routesImage", "satellite"} |->
                   CASE n = "amBaseMap" -> "base"
                     [] n = "routesImage" -> "routes"
                     [] n = "satellite" -> "satellite"]
    /\ UNCHANGED <<convVars, dirVars, ioVars, cmpVars, tileVars, mode, caller, boundariesImage,
                   boundariesGrey, boundariesBinary, contours, idx,
                   amBaseMapBinary, binaryImage, green_mask, amDetailed,
                   structures, found, fills, labels, written, ret>>

RVF_Steps ==
    \/ RVF_Copy
    \/ RVF_FilterColours
    \/ RVF_Bilateral
    \/ RVF_Binary
    \/ RVF_EnhanceLines
    \/ RVF_FindContours
    \/ RVF_RoutesBinary
    \/ RVF_SatelliteMask
    \/ RVF_Erode
    \/ RVF_Classify
    \/ RVF_Overlay
    \/ RVF_DrawContours
    \/ RVF_FinalBinary
    \/ RVF_Reduce

\* Satellite images: grey ground, and vegetation along the left edge, three
\* or four columns wide.
SatGreen == <<40, 160, 60>>

SatGround == Blank(Rows, Cols, <<128, 128, 128>>)

SatBand3 == PaintRect(SatGround, 0, 2, 0, Rows - 1, SatGreen)

SatBand4 == PaintRect(SatGround, 0, 3, 0, Rows - 1, SatGreen)

LoadedForRVF(base, routes, sat) ==
    [base |-> base, boundaries |-> NoRaster, routes |-> routes,
     satellite |-> sat, structures |-> NoRaster]

\* The calls of routeAndVegFiltering that are modelled.
RVFScenes ==
    {LoadedForRVF(BaseDrawn, WhiteSheet, SatBand3),
     LoadedForRVF(BaseDrawn, WhiteSheet, SatBand4),
     LoadedForRVF(BaseDrawn, RoutesOne, SatBand4),
     LoadedForRVF(BoundaryVLine, RoutesRight, SatGround),
     LoadedForRVF(BoundaryVLine, WhiteSheet, SatBand4),
     LoadedForRVF(BoundaryCross, WhiteSheet, SatGround),
     LoadedForRVF(WhiteSheet, WhiteSheet, SatGround)}

InitRVF ==
    /\ mode = "routeAndVegFiltering"
    /\ pc = "call"
    /\ caller \in RVFScenes
    /\ IdleLocals

NextRVF == Notebook_RouteAndVegFiltering \/ RVF_Steps

SpecRVF == InitRVF /\ [][NextRVF]_vars

---------------------------------------------------------------------------
(* Properties of routeAndVegFiltering and of the area filter *)

\* Either filter called on its own.
InitFilters == InitPPF \/ InitRVF

NextFilters == NextPPF \/ NextRVF

SpecFilters == InitFilters /\ [][NextFilters]_vars

\* The pixel count that the area filter of the running function uses:
\* that of the boundary raster (line 58) or of the base map (line 232).
FilterTotalPixels ==
    IF mode = "privatePropertyFiltering"
    THEN caller.boundaries.rows * caller.boundaries.cols
    ELSE caller.base.rows * caller.base.cols

\* C2: in privatePropertyFiltering and in routeAndVegFiltering only the
\* contours with 100 < area < totalPixels / 2, both bounds strict, reach the
\* classification loop: a contour with area <= 100 or >= half the raster's
\* pixel count is never classified and never filled.
C2_OnlyMidSizedContoursClassified ==
    /\ \A k \in 1..Len(labels) : ~Excluded(labels[k].contour, FilterTotalPixels)
    /\ \A k \in 1..Len(fills) : ~Excluded(fills[k].contour, FilterTotalPixels)
    /\ \A k \in 1..Len(contours) : ~Excluded(contours[k], FilterTotalPixels)
    /\ pc \in {"ppf_loop", "rvf_loop"} =>
         {contours[k] : k \in 1..Len(contours)} =
             {c \in found : ~Excluded(c, FilterTotalPixels)}

\* routeAndVegFiltering has returned after findContours gave a contour of
\* area exactly 100, which no loop iteration classified or filled.
C2_Witness ==
    /\ mode = "routeAndVegFiltering"
    /\ pc = "rvf_return"
    /\ \E c \in found :
         /\ ContourArea2(c) = 2 * 100
         /\ \A k \in 1..Len(labels) : labels[k].contour # c
         /\ \A k \in 1..Len(fills) : fills[k].contour # c

RVFLabels == SelectSeq(labels, LAMBDA l : l.fn = "routeAndVegFiltering")

RVFFills == SelectSeq(fills, LAMBDA f : f.fn = "routeAndVegFiltering")

\* The raster that was written under a file name.
Artifact(name) ==
    written[CHOOSE k \in 1..Len(written) : written[k].name = name].img

\* The route-line pixels inside a contour: the pixels of its filled interior
\* where the route raster is not near-white (grey level at most 240).
RouteLinePixels(c) == {p \in c.fill : Gray(caller.routes.px[p]) <= 240}

\* The pixels of the eroded vegetation mask (artifact 017_2) inside a contour.
VegetationPixels(c) ==
    {p \in c.fill :
       Artifact("/subresults/017_2_Satellite_Green_Mask_Reduced.png").px[p] = 255}

RedFilled(c) == \E k \in 1..Len(RVFFills) :
                   RVFFills[k].contour = c /\ RVFFills[k].color = Red

\* C4: in routeAndVegFiltering a retained contour whose route-line pixel
\* fraction is strictly above 0.001 is classified road and filled red
\* whatever its vegetation coverage; the vegetation coverage is evaluated
\* only for contours that failed the road check.
C4_RoadCheckPrecedesVegetation ==
    /\ \A k \in 1..Len(RVFLabels) :
         LET l == RVFLabels[k]
             road == 1000 * Cardinality(RouteLinePixels(l.contour))
                        > Cardinality(l.contour.fill)
         IN  /\ road => l.label = "road" /\ RedFilled(l.contour)
             /\ road <=> l.greenPixelCount = -1
    /\ (pc = "rvf_loop" /\ idx > 1 /\ RVFLabels[idx - 1].label = "road") =>
         \A p \in contours[idx - 1].fill : amBaseMap.px[p] = Red

\* A contour classified road although more than 10% of it is vegetation.
C4_Witness ==
    /\ pc = "rvf_loop"
    /\ \E k \in 1..Len(RVFLabels) :
         /\ RVFLabels[k].label = "road"
         /\ 10 * Cardinality(VegetationPixels(RVFLabels[k].contour))
               > Cardinality(RVFLabels[k].contour.fill)
         /\ RedFilled(RVFLabels[k].contour)

\* C5: in routeAndVegFiltering a retained contour with no route-line pixels
\* is classified vegetation and filled red if and only if its count of
\* eroded-vegetation-mask pixels divided by its filled pixel count is
\* strictly greater than 0.10; at exactly 10% it is left unfilled.
C5_VegetationStrictlyAboveTenPercent ==
    pc = "rvf_loop" =>
      \A k \in 1..Len(RVFLabels) :
         LET l == RVFLabels[k]
             green == Cardinality(VegetationPixels(l.contour))
             total == Cardinality(l.contour.fill)
         IN  RouteLinePixels(l.contour) = {} =>
               /\ l.greenPixelCount = green
               /\ l.totalPixelCount = total
               /\ IF 10 * green > total
                  THEN l.label = "vegetation" /\ RedFilled(l.contour)
                  ELSE /\ l.label = "unclassified"
                       /\ \A m \in 1..Len(RVFFills) : RVFFills[m].contour # l.contour

\* A contour without route lines at exactly 10% vegetation, left unfilled.
C5_Witness ==
    /\ pc = "rvf_loop"
    /\ \E k \in 1..Len(RVFLabels) :
         LET c == RVFLabels[k].contour
         IN  /\ RouteLinePixels(c) = {}
             /\ 10 * Cardinality(VegetationPixels(c)) = Cardinality(c.fill)
             /\ RVFLabels[k].label = "unclassified"
             /\ \A p \in c.fill : amBaseMap.px[p] # Red

\* Whether a base-map colour lies in one of the three ranges of step 2.
MatchesARange(c) ==
    \/ /\ 200 <= c[1] /\ c[1] <= 210 /\ 215 <= c[2] /\ c[2] <= 230
       /\ 230 <= c[3] /\ c[3] <= 240
    \/ /\ 205 <= c[1] /\ c[1] <= 220 /\ 230 <= c[2] /\ c[2] <= 255
       /\ 210 <= c[3] /\ c[3] <= 235
    \/ /\ 250 <= c[1] /\ c[1] <= 255 /\ 235 <= c[2] /\ c[2] <= 245
       /\ 215 <= c[3] /\ c[3] <= 225

\* C9: in step 2 of routeAndVegFiltering exactly the base-map pixels that
\* match none of the brown, green and blue ranges are recoloured white, and
\* every pixel that matches at least one range keeps its original value.
C9_NonMatchingPixelsWhitened ==
    (mode = "routeAndVegFiltering" /\ pc = "rvf_bilateral") =>
        \A p \in Pos(caller.base) :
            amBaseMap.px[p] = IF MatchesARange(caller.base.px[p])
                              THEN caller.base.px[p] ELSE White

---------------------------------------------------------------------------
(* structureFiltering(amDetailed, structures, pathResult) *)

\* lines 130-131
Structures_Copy ==
    /\ pc = "sf_copy"
    /\ None \notin {amDetailed, structures}
    /\ alias' = Unalias({"amDetailed", "structures"})
    /\ pc' = "sf_filter"
    /\ UNCHANGED <<convVars, dirVars, ioVars, cmpVars, tileVars, mode, caller, amBaseMap,
                   boundariesImage, routesImage, boundariesGrey,
                   boundariesBinary, contours, idx, satellite,
                   amBaseMapBinary, binaryImage, green_mask, amDetailed,
                   structures, found, fills, labels, written, ret>>

\* A mask whose band leaves out its own border values.
StructuresMaskOpen(img) == InRange(BGR2HSV(img), <<11, 51, 51>>, <<59, 254, 254>>)

\* lines 134-141: 255 where the structures raster is yellow or orange in HSV.
StructuresMask(img) == InRange(BGR2HSV(img), <<10, 50, 50>>, <<60, 255, 255>>)

\* lines 144-148: red where the mask is set, black elsewhere.
RedMask(img) ==
    LET redSolidMask == Blank(img.rows, img.cols, Red)
    IN  MaskedColour(redSolidMask, StructuresMask(img))

\* lines 134-157
Structures_Filter ==
    /\ pc = "sf_filter"
    /\ LET redMask == RedMask(structures)
           result == WithPx(amDetailed, [p \in Pos(amDetailed) |->
                        IF redMask.px[p] = Red THEN Red ELSE amDetailed.px[p]])
       IN  /\ written' = written \o
                 <<[name |-> "/subresults/006_Structures_Redmask.png", img |-> redMask],
                   [name |-> "/subresults/007_Structures_Removed.png", img |-> result]>>
           /\ caller' = WriteThrough("amDetailed", result)
           /\ ret' = result
    /\ amDetailed' = NoRaster
    /\ structures' = NoRaster
    /\ alias' = <<>>
    /\ pc' = "sf_return"
    /\ UNCHANGED <<convVars, dirVars, ioVars, cmpVars, tileVars, mode, amBaseMap, boundariesImage,
                   routesImage, boundariesGrey, boundariesBinary, contours,
                   idx, satellite, amBaseMapBinary, binaryImage, green_mask,
                   found, fills, labels>>

Structures_Steps == Structures_Copy \/ Structures_Filter

---------------------------------------------------------------------------
(* segmentAM and segmentAM_noStructures *)

PipelineModes == {"segmentAM", "segmentAM_noStructures"}

\* lines 371-373 and 402-404
Segment_PrivateProperty ==
    /\ pc = "call"
    /\ mode \in PipelineModes
    /\ CallPrivatePropertyFiltering(caller.base, caller.boundaries, caller.routes)
    /\ alias' = [n \in {"amBaseMap", "boundariesImage", "routesImage"} |->
                   CASE n = "amBaseMap" -> "base"
                     [] n = "boundariesImage" -> "boundaries"
                     [] n = "routesImage" -> "routes"]
    /\ UNCHANGED <<convVars, dirVars, ioVars, cmpVars, tileVars, mode, caller, boundariesGrey,
                   boundariesBinary, contours, idx, satellite,
                   amBaseMapBinary, binaryImage, green_mask, amDetailed,
                   structures, found, fills, labels, written, ret>>

\* A structure stage that either variant runs.
Segment_StructuresInBothVariants ==
    /\ pc = "ppf_return"
    /\ mode \in PipelineModes
    /\ amDetailed' = ret
    /\ structures' = caller.structures
    /\ alias' = [n \in {"structures"} |-> "structures"]
    /\ pc' = "sf_copy"
    /\ UNCHANGED <<convVars, dirVars, ioVars, cmpVars, tileVars, mode, caller, amBaseMap,
                   boundariesImage, routesImage, boundariesGrey,
                   boundariesBinary, contours, idx, satellite,
                   amBaseMapBinary, binaryImage, green_mask, found, fills,
                   labels, written, ret>>

\* line 405: the base map handed over is the array the first stage returned,
\* which is none of the caller's.
Segment_Structures ==
    /\ pc = "ppf_return"
    /\ mode = "segmentAM_noStructures"
    /\ amDetailed' = ret
    /\ structures' = caller.structures
    /\ alias' = [n \in {"structures"} |-> "structures"]
    /\ pc' = "sf_copy"
    /\ UNCHANGED <<convVars, dirVars, ioVars, cmpVars, tileVars, mode, caller, amBaseMap,
                   boundariesImage, routesImage, boundariesGrey,
                   boundariesBinary, contours, idx, satellite,
                   amBaseMapBinary, binaryImage, green_mask, found, fills,
                   labels, written, ret>>

\* A call of routeAndVegFiltering on the caller's base map instead of the
\* raster the stage before returned.
Segment_RouteAndVegOnInput ==
    /\ \/ pc = "ppf_return" /\ mode = "segmentAM"
       \/ pc = "sf_return" /\ mode = "segmentAM_noStructures"
    /\ amDetailed' = ret
    /\ CallRouteAndVegFiltering(caller.base, caller.routes, caller.satellite)
    /\ alias' = [n \in {"routesImage", "satellite"} |->
                   IF n = "routesImage" THEN "routes" ELSE "satellite"]
    /\ UNCHANGED <<convVars, dirVars, ioVars, cmpVars, tileVars, mode, caller, boundariesImage,
                   boundariesGrey, boundariesBinary, contours, idx,
                   amBaseMapBinary, binaryImage, green_mask, structures,
                   found, fills, labels, written, ret>>

\* line 374 after line 371, lines 406-408 after line 405
Segment_RouteAndVeg ==
    /\ \/ pc = "ppf_return" /\ mode = "segmentAM"
       \/ pc = "sf_return" /\ mode = "segmentAM_noStructures"
    /\ amDetailed' = ret
    /\ CallRouteAndVegFiltering(ret, caller.routes, caller.satellite)
    /\ alias' = [n \in {"routesImage", "satellite"} |->
                   IF n = "routesImage" THEN "routes" ELSE "satellite"]
    /\ UNCHANGED <<convVars, dirVars, ioVars, cmpVars, tileVars, mode, caller, boundariesImage,
                   boundariesGrey, boundariesBinary, contours, idx,
                   amBaseMapBinary, binaryImage, green_mask, structures,
                   found, fills, labels, written, ret>>

\* What segmentAM and segmentAM_noStructures return: the function segmentAM.
SegmentAMFunction == [function |-> "segmentAM"]

\* lines 374-377 and 406-411
Segment_Write ==
    /\ pc = "rvf_return"
    /\ mode \in PipelineModes
    /\ amDetailed' = ret
    /\ written' = Imwrite("/segmented.jpg", ret)
    /\ ret' = SegmentAMFunction
    /\ pc' = "done"
    /\ UNCHANGED <<convVars, dirVars, ioVars, cmpVars, tileVars, mode, caller, alias, amBaseMap,
                   boundariesImage, routesImage, boundariesGrey,
                   boundariesBinary, contours, idx, satellite,
                   amBaseMapBinary, binaryImage, green_mask, structures,
                   found, fills, labels>>

Segment_Steps ==
    \/ Segment_PrivateProperty
    \/ Segment_Structures
    \/ Segment_RouteAndVeg
    \/ Segment_Write

\* A boundary map that is white except for one black square.
SquareSide == 9

BoundarySquare == PaintRect(WhiteSheet, 6, 5 + SquareSide, 2, 1 + SquareSide, Black)

GreySheet == Blank(Rows, Cols, Grey)

\* A structures map with one orange building.
StructuresOne == PaintRect(WhiteSheet, 2, 4, 6, 8, <<0, 165, 255>>)

Loaded(am_withRoads, boundaries, routes, base, sat) ==
    [base |-> base, boundaries |-> boundaries, routes |-> routes,
     satellite |-> sat, structures |-> am_withRoads]

\* The loaded rasters of the modelled pipeline runs.
PipelineScenes ==
    {Loaded(WhiteSheet, BoundarySquare, WhiteSheet, WhiteSheet, SatGround),
     Loaded(GreySheet, BoundarySquare, WhiteSheet, GreySheet, SatGround),
     Loaded(StructuresOne, BoundaryVLine, RoutesOne, BaseDrawn, SatBand4)}

InitPipeline ==
    /\ mode \in PipelineModes
    /\ pc = "call"
    /\ caller \in PipelineScenes
    /\ IdleLocals

NextPipeline == Segment_Steps \/ PPF_Steps \/ Structures_Steps \/ RVF_Steps

SpecPipeline == InitPipeline /\ [][NextPipeline]_vars

\* The boundary layer is white with one black square, the route layer is
\* white and the satellite layer has no green.
SyntheticRun ==
    /\ mode \in PipelineModes
    /\ caller.boundaries = BoundarySquare
    /\ caller.routes = WhiteSheet
    /\ caller.satellite = SatGround

\* The raster written as segmented.jpg, read as a colour image.
SegmentedAsColour ==
    LET out == Artifact("/segmented.jpg")
    IN  [p \in Pos(out) |-> <<out.px[p], out.px[p], out.px[p]>>]

\* C6 as stated: a pipeline run on a white boundary layer with one black
\* square, a white route layer and a satellite layer without green yields an
\* output with exactly one red-filled square region, every pixel outside it
\* unchanged from the input base map.
C6_OneRedSquareRestUnchanged ==
    (SyntheticRun /\ pc = "done") =>
        \E x0 \in 0..(Cols - SquareSide), y0 \in 0..(Rows - SquareSide) :
            \A p \in Pos(caller.base) :
                SegmentedAsColour[p] =
                    IF /\ x0 <= p[1] /\ p[1] < x0 + SquareSide
                       /\ y0 <= p[2] /\ p[2] < y0 + SquareSide
                    THEN Red ELSE caller.base.px[p]

\* C6 amended: on those rasters the first stage returns a base map that is
\* red at every pixel (no pixel of the boundary layer is public), and the
\* raster written as segmented.jpg is the one-channel mask returned by
\* routeAndVegFiltering, 0 at every pixel: no region is singled out and no
\* pixel keeps its base-map value.
C6_SyntheticRunGivesUniformMask ==
    (SyntheticRun /\ pc = "done") =>
        \A p \in Pos(caller.base) :
            /\ Artifact("/subresults/005_Result.png").px[p] = Red
            /\ Artifact("/segmented.jpg").px[p] = 0

\* Such a run has ended, and its first stage classified the square private.
C6_Witness ==
    /\ SyntheticRun
    /\ pc = "done"
    /\ \E k \in 1..Len(PPFFills) :
         /\ PPFFills[k].color = Red
         /\ \A p \in Pos(caller.boundaries) :
              caller.boundaries.px[p] = Black => p \in PPFFills[k].contour.fill

---------------------------------------------------------------------------
(* evaluation.compare(shapesMaskPath, groundTruthPath) *)

\* No segmentation function is running and the notebook holds no rasters.
NoCaller == [base |-> NoRaster, boundaries |-> NoRaster, routes |-> NoRaster,
             satellite |-> NoRaster, structures |-> NoRaster]

\* The mask images have at most MaxMaskPixels pixels, each 0 or 255.
MaxMaskPixels == 4

MaskShapes == {s \in (1..MaxMaskPixels) \X (1..MaxMaskPixels) :
                 s[1] * s[2] <= MaxMaskPixels}

MaskValues == {0, 255}

\* The masks of height s[1] and width s[2].
MasksOf(s) ==
    {Raster(s[1], s[2], f) :
       f \in [(0..(s[2] - 1)) \X (0..(s[1] - 1)) -> MaskValues]}

\* The colours of the result map, in the channel order compare writes them.
ResultGreen == <<0, 255, 0>>
ResultYellow == <<255, 255, 0>>
ResultRed == <<255, 0, 0>>
ResultBlack == <<0, 0, 0>>

\* A classification that counts every white prediction as a false negative.
ClassifyByPrediction(shapePixel, gtPixel) ==
    IF shapePixel > 0 THEN "fn" ELSE IF gtPixel = 0 THEN "tp" ELSE "fp"

\* lines 287-298: the case of one pixel pair.
Classify(shapePixel, gtPixel) ==
    IF shapePixel = 0 /\ gtPixel = 0 THEN "tp"
    ELSE IF shapePixel = 0 /\ gtPixel > 0 THEN "fp"
    ELSE IF shapePixel > 0 /\ gtPixel = 0 THEN "fn"
    ELSE "tn"

\* Result colours with yellow and red exchanged.
ResultColourSwapped(case) ==
    CASE case = "tp" -> ResultGreen
      [] case = "fp" -> ResultRed
      [] case = "fn" -> ResultYellow
      [] case = "tn" -> ResultBlack

\* lines 288, 291, 294, 297
ResultColour(case) ==
    CASE case = "tp" -> ResultGreen
      [] case = "fp" -> ResultYellow
      [] case = "fn" -> ResultRed
      [] case = "tn" -> ResultBlack

\* A quotient that is 1 where the code yields 0.
QuotientOrOne(num, den) == IF den # 0 THEN <<num, den>> ELSE <<1, 1>>

\* A quotient taken whatever its denominator.
QuotientUnguarded(num, den) == <<num, den>>

\* lines 301-303: num / den if den != 0 else 0, as <<numerator, denominator>>.
QuotientOrZero(num, den) == IF den # 0 THEN <<num, den>> ELSE <<0, 1>>

\* lines 279-298, one pass through the body of the inner loop
Compare_Pixel ==
    /\ pc = "cmp_loop"
    /\ cmp_i < shapesMask.rows
    /\ LET shapePixel == shapesMask.px[<<cmp_j, cmp_i>>]
           gtPixel == groundTruthMask.px[<<cmp_j, cmp_i>>]
           case == Classify(shapePixel, gtPixel)
       IN  /\ resultMap' = [resultMap EXCEPT
                              !.px[<<cmp_j, cmp_i>>] = ResultColour(case)]
           /\ tp' = IF case = "tp" THEN tp + 1 ELSE tp
           /\ fp' = IF case = "fp" THEN fp + 1 ELSE fp
           /\ fn' = IF case = "fn" THEN fn + 1 ELSE fn
           /\ tn' = IF case = "tn" THEN tn + 1 ELSE tn
    /\ IF cmp_j + 1 < shapesMask.cols
       THEN cmp_j' = cmp_j + 1 /\ cmp_i' = cmp_i
       ELSE cmp_j' = 0 /\ cmp_i' = cmp_i + 1
    /\ UNCHANGED <<convVars, dirVars, ioVars, filterVars, tileVars, mode, pc, shapesMask,
                   groundTruthMask, precision, recall, accuracy>>

\* lines 301-303, after the loops
Compare_Metrics ==
    /\ pc = "cmp_loop"
    /\ cmp_i >= shapesMask.rows
    /\ precision' = QuotientOrZero(tp, tp + fp)
    /\ recall' = QuotientOrZero(tp, tp + fn)
    /\ accuracy' = QuotientOrZero(tp + tn, tp + tn + fp + fn)
    /\ pc' = "cmp_done"
    /\ UNCHANGED <<convVars, dirVars, ioVars, filterVars, tileVars, mode, shapesMask, groundTruthMask,
                   resultMap, cmp_i, cmp_j, tp, fp, fn, tn>>

\* The state after lines 268-276: the masks loaded, the result map zeroed.
InitCompare ==
    /\ mode = "compare"
    /\ pc = "cmp_loop"
    /\ caller = NoCaller
    /\ IdleFilters
    /\ IdleTiles
    /\ IdleIO
    /\ IdleDirs
    /\ IdleConv
    /\ \E s \in MaskShapes :
         /\ shapesMask \in MasksOf(s)
         /\ groundTruthMask \in MasksOf(s)
         /\ resultMap = Blank(s[1], s[2], <<0, 0, 0>>)
    /\ cmp_i = 0 /\ cmp_j = 0
    /\ tp = 0 /\ fp = 0 /\ fn = 0 /\ tn = 0
    /\ precision = <<0, 1>> /\ recall = <<0, 1>> /\ accuracy = <<0, 1>>

NextCompare == Compare_Pixel \/ Compare_Metrics

SpecCompare == InitCompare /\ [][NextCompare]_vars

IdenticalMasks == mode = "compare" /\ shapesMask = groundTruthMask

IsOne(q) == q[1] = q[2]

IsZero(q) == q[1] = 0

\* C7 as stated: for identical binary masks the computed precision, recall
\* and accuracy are all exactly 1.0, masks without a black pixel included.
C7_IdenticalMasksAllMetricsOne ==
    (IdenticalMasks /\ pc = "cmp_done") =>
        IsOne(precision) /\ IsOne(recall) /\ IsOne(accuracy)

\* C7 amended: for identical binary masks the accuracy is exactly 1.0;
\* precision and recall are exactly 1.0 when the masks contain a black
\* pixel, and both are 0 when they contain none.
C7_IdenticalMasksMetrics ==
    (IdenticalMasks /\ pc = "cmp_done") =>
        /\ IsOne(accuracy)
        /\ IF \E p \in Pos(shapesMask) : shapesMask.px[p] = 0
           THEN IsOne(precision) /\ IsOne(recall)
           ELSE IsZero(precision) /\ IsZero(recall)

\* Two identical all-white masks have been compared.
C7_Witness ==
    /\ IdenticalMasks
    /\ pc = "cmp_done"
    /\ \A p \in Pos(shapesMask) : shapesMask.px[p] = 255
    /\ IsZero(precision) /\ IsZero(recall) /\ IsOne(accuracy)

---------------------------------------------------------------------------
(* getTiles of dataprepGoogle.py and dataprepMapBox.py *)

\* The tile indices that deg2tileNum yields lie in 0..MaxTileIndex.
MaxTileIndex == 1

TileIndexes == 0..MaxTileIndex

Min(a, b) == IF a <= b THEN a ELSE b

Max(a, b) == IF a >= b THEN a ELSE b

\* A request for the tile of row x and column y.
TileUrlTransposed(module, x, y) == [fetcher |-> module, x |-> y, y |-> x]

\* Google line 127, MapBox line 92: the tile a request URL names.
TileUrl(module, x, y) == [fetcher |-> module, x |-> x, y |-> y]

\* Google line 130, MapBox line 95: {outputDir}/{x}_{y}.png
FilePath(x, y) == <<x, y>>

\* Google lines 123-124, MapBox lines 88-89:
\* for x in range(xMin, xMax + 1): for y in range(yMin, yMax + 1): the
\* indices of the iteration after that of (x, y).
NextTile(x, y) == IF y < yMax THEN <<x, y + 1>> ELSE <<x + 1, yMin>>

\* Google line 143, MapBox line 109: one pass through the loop body ends
\* (time.sleep) and the loops go on.
Advance ==
    /\ tileX' = NextTile(tileX, tileY)[1]
    /\ tileY' = NextTile(tileX, tileY)[2]

\* Google lines 133-140, MapBox lines 99-106: the request succeeds and the
\* response is written to the tile's file.
Tile_Downloaded ==
    /\ pc = "tiles_loop"
    /\ tileX <= xMax
    /\ requests' = Append(requests, TileUrl(fetcher, tileX, tileY))
    /\ tileFiles' = tileFiles \cup {FilePath(tileX, tileY)}
    /\ status' = status + 1
    /\ Advance
    /\ UNCHANGED <<convVars, dirVars, ioVars, filterVars, cmpVars, mode, pc, fetcher, xMin, xMax, yMin,
                   yMax, totalTiles, printed, fault>>

\* Google lines 133-134 and 141-142, MapBox lines 99-100 and 107-108:
\* requests.get or raise_for_status raises a RequestException, which is
\* printed.
Tile_RequestFailed ==
    /\ pc = "tiles_loop"
    /\ tileX <= xMax
    /\ requests' = Append(requests, TileUrl(fetcher, tileX, tileY))
    /\ printed' = Append(printed, TileUrl(fetcher, tileX, tileY))
    /\ Advance
    /\ UNCHANGED <<convVars, dirVars, ioVars, filterVars, cmpVars, mode, pc, fetcher, xMin, xMax, yMin,
                   yMax, totalTiles, status, tileFiles, fault>>

\* Google lines 136-138 and 141-142, MapBox lines 102-104 and 107-108: the
\* file is open when iter_content raises a RequestException.
Tile_StreamFailed ==
    /\ pc = "tiles_loop"
    /\ tileX <= xMax
    /\ requests' = Append(requests, TileUrl(fetcher, tileX, tileY))
    /\ tileFiles' = tileFiles \cup {FilePath(tileX, tileY)}
    /\ printed' = Append(printed, TileUrl(fetcher, tileX, tileY))
    /\ Advance
    /\ UNCHANGED <<convVars, dirVars, ioVars, filterVars, cmpVars, mode, pc, fetcher, xMin, xMax, yMin,
                   yMax, totalTiles, status, fault>>

\* Google line 136, MapBox line 102: open(filePath, "wb") raises an OSError
\* (the output directory is missing or not writable), which no except
\* clause of getTiles catches.
Tile_OpenFailed ==
    /\ pc = "tiles_loop"
    /\ tileX <= xMax
    /\ requests' = Append(requests, TileUrl(fetcher, tileX, tileY))
    /\ fault' = "OSError"
    /\ pc' = "tiles_aborted"
    /\ UNCHANGED <<convVars, dirVars, ioVars, filterVars, cmpVars, mode, fetcher, xMin, xMax, yMin,
                   yMax, tileX, tileY, totalTiles, status, printed,
                   tileFiles>>

\* Google line 144, MapBox line 111: status.close() after the loops
Tiles_Close ==
    /\ pc = "tiles_loop"
    /\ tileX > xMax
    /\ pc' = "tiles_done"
    /\ UNCHANGED <<convVars, dirVars, ioVars, filterVars, cmpVars, mode, fetcher, xMin, xMax, yMin,
                   yMax, tileX, tileY, totalTiles, status, requests, printed,
                   tileFiles, fault>>

\* The state before the loops (Google lines 114-120, MapBox lines 81-85).
InitTiles ==
    /\ mode = "getTiles"
    /\ pc = "tiles_loop"
    /\ caller = NoCaller
    /\ IdleFilters
    /\ IdleCompare
    /\ IdleIO
    /\ IdleDirs
    /\ IdleConv
    /\ fetcher \in {"Google", "MapBox"}
    /\ \E x1, x2, y1, y2 \in TileIndexes :
         /\ xMin = Min(x1, x2) /\ xMax = Max(x1, x2)
         /\ yMin = Min(y1, y2) /\ yMax = Max(y1, y2)
    /\ tileX = xMin /\ tileY = yMin
    /\ totalTiles = (xMax - xMin + 1) * (yMax - yMin + 1)
    /\ status = 0
    /\ requests = <<>> /\ printed = <<>> /\ tileFiles = {}
    /\ fault = "none"

NextTiles ==
    \/ Tile_Downloaded
    \/ Tile_RequestFailed
    \/ Tile_StreamFailed
    \/ Tile_OpenFailed
    \/ Tiles_Close

SpecTiles == InitTiles /\ [][NextTiles]_vars

\* Every call inside getTiles returns or raises, so the loops go on.
FairSpecTiles == SpecTiles /\ WF_vars(NextTiles)

\* The requests for all tiles, x the outer loop and y the inner.
RECURSIVE RequestsFrom(_, _)
RequestsFrom(x, y) ==
    IF x > xMax THEN <<>>
    ELSE <<[fetcher |-> fetcher, x |-> x, y |-> y]>>
         \o (IF y < yMax THEN RequestsFrom(x, y + 1) ELSE RequestsFrom(x + 1, yMin))

ExpectedRequests == RequestsFrom(xMin, yMin)

IsPrefix(s, t) == Len(s) <= Len(t) /\ \A k \in 1..Len(s) : s[k] = t[k]

TileRequestsInOrder ==
    /\ IsPrefix(requests, ExpectedRequests)
    /\ Len(ExpectedRequests) = totalTiles
    /\ \A k, m \in 1..Len(printed) : printed[k] = printed[m] => k = m
    /\ \A k \in 1..Len(printed) : \E m \in 1..Len(requests) : requests[m] = printed[k]
    /\ pc = "tiles_done" => requests = ExpectedRequests /\ fault = "none"
    /\ pc = "tiles_aborted" =>
         /\ fault = "OSError"
         /\ requests # <<>>
         /\ requests[Len(requests)] \notin {printed[k] : k \in 1..Len(printed)}

---------------------------------------------------------------------------
(* The WMS fetchers of AMS/API.py *)

WmsFetchers ==
    {"getAMDetailed", "getAMWithRoads", "getRoutes", "getBoundaries", "getSatellite"}

\* lines 49, 109, 163, 215, 269
APIUrl(fetch) ==
    CASE fetch = "getAMDetailed" -> "https://api.dataforsyningen.dk/forvaltning2"
      [] fetch = "getAMWithRoads" -> "https://api.dataforsyningen.dk/forvaltning2"
      [] fetch = "getRoutes" -> "https://geocloud.vd.dk/CVF/wms"
      [] fetch = "getBoundaries" ->
             "https://api.dataforsyningen.dk/wms/MatGaeldendeOgForeloebigWMS_DAF"
      [] fetch = "getSatellite" -> "https://api.dataforsyningen.dk/orto_foraar_DAF"

\* lines 69, 129, 181, 230, 285: the layer the request parameters name.
Layers(fetch) ==
    CASE fetch = "getAMDetailed" -> "Basis_kort"
      [] fetch = "getAMWithRoads" -> "Adresse-byggesag"
      [] fetch = "getRoutes" -> "CVF:veje"
      [] fetch = "getBoundaries" -> "MatrikelSkel_Gaeldende"
      [] fetch = "getSatellite" -> "orto_foraar"

\* The URL requests.get(APIUrl, params=params) asks for.
RequestUrl(fetch) == [APIUrl |-> APIUrl(fetch), layers |-> Layers(fetch)]

\* lines 81, 140, 191, 245, 296: the file the image is saved to.
OutputFile(fetch) ==
    CASE fetch = "getAMDetailed" -> "/AM_Detailed.png"
      [] fetch = "getAMWithRoads" -> "/AM_with_roads.png"
      [] fetch = "getRoutes" -> "/routes.png"
      [] fetch = "getBoundaries" -> "/boundaries.png"
      [] fetch = "getSatellite" -> "/satellite.png"

\* The status codes the servers answer with.
StatusCodes == {200, 401, 404, 500}

\* The bodies of the answers.
Bodies == {"png", "xml"}

\* lines 84-88, 143, 194, 248, 299: the lines a fetcher prints for a status
\* code other than 200.
FailureReport(fetch, resp) ==
    IF fetch = "getAMDetailed"
    THEN <<[text |-> "Failed to fetch map. Status code:", value |-> resp.status_code],
           [text |-> "On path:", value |-> resp.url]>>
    ELSE <<[text |-> "Failed to fetch roads. Status code:", value |-> resp.status_code]>>

\* lines 79, 138, 189, 243, 294: requests.get returns a response.
Wms_Request ==
    /\ pc = "wms_request"
    /\ mode \in WmsFetchers
    /\ \E code \in StatusCodes, body \in Bodies :
         response' = [status_code |-> code, url |-> RequestUrl(mode), content |-> body]
    /\ pc' = "wms_check"
    /\ UNCHANGED <<convVars, dirVars, cmpVars, tileVars, mode, disk, console, caller, alias,
                   amBaseMap, boundariesImage, routesImage, boundariesGrey,
                   boundariesBinary, contours, idx, satellite,
                   amBaseMapBinary, binaryImage, green_mask, amDetailed,
                   structures, found, fills, labels, written, ret>>

\* lines 79, 138, 189, 243, 294: requests.get raises (no connection); no
\* fetcher catches it.
Wms_RequestRaises ==
    /\ pc = "wms_request"
    /\ mode \in WmsFetchers
    /\ ret' = Raised("RequestException")
    /\ pc' = "raised"
    /\ UNCHANGED <<convVars, dirVars, cmpVars, tileVars, mode, disk, console, response, caller,
                   alias, amBaseMap, boundariesImage, routesImage,
                   boundariesGrey, boundariesBinary, contours, idx,
                   satellite, amBaseMapBinary, binaryImage, green_mask,
                   amDetailed, structures, found, fills, labels, written>>

\* lines 80-82, 139-141, 190-192, 244-246, 295-297: status 200, the content
\* is saved.
Wms_Save ==
    /\ pc = "wms_check"
    /\ response.status_code = 200
    /\ disk' = (OutputFile(mode) :> response.content) @@ disk
    /\ ret' = None
    /\ pc' = "wms_done"
    /\ UNCHANGED <<convVars, dirVars, cmpVars, tileVars, mode, console, response, caller, alias,
                   amBaseMap, boundariesImage, routesImage, boundariesGrey,
                   boundariesBinary, contours, idx, satellite,
                   amBaseMapBinary, binaryImage, green_mask, amDetailed,
                   structures, found, fills, labels, written>>

\* lines 81, 140, 191, 245, 296: open(path + name, "wb") raises an OSError
\* (the directory is missing); no fetcher catches it.
Wms_OpenFailed ==
    /\ pc = "wms_check"
    /\ response.status_code = 200
    /\ ret' = Raised("OSError")
    /\ pc' = "raised"
    /\ UNCHANGED <<convVars, dirVars, cmpVars, tileVars, mode, disk, console, response, caller,
                   alias, amBaseMap, boundariesImage, routesImage,
                   boundariesGrey, boundariesBinary, contours, idx,
                   satellite, amBaseMapBinary, binaryImage, green_mask,
                   amDetailed, structures, found, fills, labels, written>>

\* lines 83-88, 142-143, 193-194, 247-248, 298-299: any other status.
Wms_Report ==
    /\ pc = "wms_check"
    /\ response.status_code # 200
    /\ console' = console \o FailureReport(mode, response)
    /\ ret' = None
    /\ pc' = "wms_done"
    /\ UNCHANGED <<convVars, dirVars, cmpVars, tileVars, mode, disk, response, caller, alias,
                   amBaseMap, boundariesImage, routesImage, boundariesGrey,
                   boundariesBinary, contours, idx, satellite,
                   amBaseMapBinary, binaryImage, green_mask, amDetailed,
                   structures, found, fills, labels, written>>

\* The notebook calls one fetcher; the output file may exist from an
\* earlier download.
InitWms ==
    /\ mode \in WmsFetchers
    /\ pc = "wms_request"
    /\ caller = NoCaller
    /\ IdleFilters
    /\ IdleCompare
    /\ IdleTiles
    /\ disk \in {<<>>, (OutputFile(mode) :> "old")}
    /\ console = <<>>
    /\ response = NoResponse
    /\ IdleDirs
    /\ IdleConv

NextWms ==
    \/ Wms_Request
    \/ Wms_RequestRaises
    \/ Wms_Save
    \/ Wms_OpenFailed
    \/ Wms_Report

SpecWms == InitWms /\ [][NextWms]_vars

\* A fetcher has returned after a response with a status other than 200.
WmsFailed ==
    /\ mode \in WmsFetchers
    /\ pc = "wms_done"
    /\ response.status_code # 200

\* Whether a printed line shows the value v under the label text.
Shows(text, v) ==
    \E k \in 1..Len(console) : console[k].text = text /\ console[k].value = v

\* The output file is as it was before the call.
OutputFileUntouched ==
    \A f \in DOMAIN disk : disk[f] = "old"

\* C11 as stated: after a response with a status other than 200 every
\* fetcher has printed the status code and the request URL, has written no
\* output file and has returned no error value.
C11_FailurePrintsStatusAndUrl ==
    WmsFailed =>
        /\ \E k \in 1..Len(console) : /\ console[k].text # "On path:"
                                      /\ console[k].value = response.status_code
        /\ Shows("On path:", response.url)
        /\ OutputFileUntouched
        /\ ret = None

---------------------------------------------------------------------------
(* The diagnostic artifacts of a pipeline run *)

\* The numeric prefix of an artifact's file name under subresults/.
ArtifactPrefix(name) ==
    CASE name = "/subresults/001_Boundary.png" -> 1
      [] name = "/subresults/002_Boundary_dialated.png" -> 2
      [] name = "/subresults/003_Boundary_Contour.png" -> 3
      [] name = "/subresults/004_Boundary_Contour_Blurred.png" -> 4
      [] name = "/subresults/005_Result.png" -> 5
      [] name = "/subresults/006_Structures_Redmask.png" -> 6
      [] name = "/subresults/007_Structures_Removed.png" -> 7
      [] name = "/subresults/008_Filtering_Blue_Mask.png" -> 8
      [] name = "/subresults/009_Filtering_Brown_Mask.png" -> 9
      [] name = "/subresults/010_Filtering_Green_Mask.png" -> 10
      [] name = "/subresults/011_Filtering_Combined_Mask.png" -> 11
      [] name = "/subresults/012_Filtering_Result.png" -> 12
      [] name = "/subresults/013_Filtering_Noise_Reduced.png" -> 13
      [] name = "/subresults/014_Filtering_Binary.png" -> 14
      [] name = "/subresults/015_Enhanced_Lines.png" -> 15
      [] name = "/subresults/016_Routes_Binary.png" -> 16
      [] name = "/subresults/017_1_Satellite_Green_Mask.png" -> 17
      [] name = "/subresults/017_2_Satellite_Green_Mask_Reduced.png" -> 17
      [] name = "/subresults/018_AM_Roads_Overlay.png" -> 18
      [] name = "/subresults/019_AM_Contours.png" -> 19
      [] name = "/subresults/020_AM_Binary.png" -> 20
      [] name = "/subresults/021_AM_Reduced_1.png" -> 21
      [] name = "/subresults/021_AM_Reduced_2.png" -> 21

\* The artifacts written so far, without the final raster.
Subresults == SelectSeq(written, LAMBDA w : w.name # "/segmented.jpg")

\* The file names of the artifacts written so far, in order.
SubresultNames == [k \in 1..Len(Subresults) |-> Subresults[k].name]

\* The file names privatePropertyFiltering, structureFiltering and
\* routeAndVegFiltering write, in the order of their imwrite statements.
PrivatePropertyArtifacts ==
    <<"/subresults/001_Boundary.png", "/subresults/002_Boundary_dialated.png",
      "/subresults/003_Boundary_Contour.png",
      "/subresults/004_Boundary_Contour_Blurred.png", "/subresults/005_Result.png">>

StructureArtifacts ==
    <<"/subresults/006_Structures_Redmask.png",
      "/subresults/007_Structures_Removed.png">>

RouteAndVegArtifacts ==
    <<"/subresults/008_Filtering_Blue_Mask.png",
      "/subresults/009_Filtering_Brown_Mask.png",
      "/subresults/010_Filtering_Green_Mask.png",
      "/subresults/011_Filtering_Combined_Mask.png",
      "/subresults/012_Filtering_Result.png",
      "/subresults/013_Filtering_Noise_Reduced.png",
      "/subresults/014_Filtering_Binary.png", "/subresults/015_Enhanced_Lines.png",
      "/subresults/016_Routes_Binary.png",
      "/subresults/017_1_Satellite_Green_Mask.png",
      "/subresults/017_2_Satellite_Green_Mask_Reduced.png",
      "/subresults/018_AM_Roads_Overlay.png", "/subresults/019_AM_Contours.png",
      "/subresults/020_AM_Binary.png", "/subresults/021_AM_Reduced_1.png",
      "/subresults/021_AM_Reduced_2.png">>

\* The artifacts of a whole run of either pipeline variant.
PipelineArtifacts(variant) ==
    IF variant = "segmentAM"
    THEN PrivatePropertyArtifacts \o RouteAndVegArtifacts
    ELSE PrivatePropertyArtifacts \o StructureArtifacts \o RouteAndVegArtifacts

\* C12: at every point of a pipeline run the artifacts written so far have
\* non-decreasing numeric prefixes and pairwise different file names, and
\* when the run has completed their names are the fixed list of the variant,
\* whatever the rasters hold.
C12_ArtifactsInPrefixOrderOncePerRun ==
    mode \in PipelineModes =>
        /\ \A k, m \in 1..Len(SubresultNames) :
             k < m => /\ ArtifactPrefix(SubresultNames[k]) <= ArtifactPrefix(SubresultNames[m])
                      /\ SubresultNames[k] # SubresultNames[m]
        /\ pc = "done" => SubresultNames = PipelineArtifacts(mode)

\* A run of the structure variant on a drawn base map has completed, with
\* all its artifacts written.
C12_Witness ==
    /\ mode = "segmentAM_noStructures"
    /\ pc = "done"
    /\ caller.base = BaseDrawn
    /\ Len(SubresultNames) = Len(PipelineArtifacts(mode))
    /\ SubresultNames[6] = "/subresults/006_Structures_Redmask.png"

---------------------------------------------------------------------------
(* The order of the pipeline stages *)

HasArtifact(name) == \E k \in 1..Len(written) : written[k].name = name

\* The raster a stage returned, as its last artifact shows it.
PrivatePropertyReturned == Artifact("/subresults/005_Result.png")

StructuresReturned == Artifact("/subresults/007_Structures_Removed.png")

RouteAndVegReturned == Artifact("/subresults/021_AM_Reduced_2.png")

\* C13: the stages of a pipeline run follow one another in a fixed line.
\* privatePropertyFiltering works on the caller's base map; structureFiltering
\* runs in the structure variant only, on the raster privatePropertyFiltering
\* returned; routeAndVegFiltering works on the raster the stage before it
\* returned; segmented.jpg is written last, after all artifacts of all
\* stages, and holds the raster routeAndVegFiltering returned.
C13_StagesRunInLineOnPreviousResult ==
    mode \in PipelineModes =>
        /\ HasArtifact("/subresults/005_Result.png") =>
             PrivatePropertyReturned =
                 AssignWhere(caller.base,
                     FilteredBoundaries(Artifact("/subresults/004_Boundary_Contour_Blurred.png")),
                     255, Red)
        /\ HasArtifact("/subresults/006_Structures_Redmask.png") =>
             /\ mode = "segmentAM_noStructures"
             /\ HasArtifact("/subresults/005_Result.png")
        /\ HasArtifact("/subresults/007_Structures_Removed.png") =>
             \A p \in Pos(StructuresReturned) :
                 StructuresReturned.px[p] =
                     IF Artifact("/subresults/006_Structures_Redmask.png").px[p] = Red
                     THEN Red ELSE PrivatePropertyReturned.px[p]
        /\ HasArtifact("/subresults/008_Filtering_Blue_Mask.png") =>
             /\ HasArtifact("/subresults/005_Result.png")
             /\ mode = "segmentAM_noStructures" =>
                    HasArtifact("/subresults/007_Structures_Removed.png")
        /\ HasArtifact("/subresults/012_Filtering_Result.png") =>
             Artifact("/subresults/012_Filtering_Result.png") =
                 Whiten(IF mode = "segmentAM" THEN PrivatePropertyReturned
                        ELSE StructuresReturned)
        /\ HasArtifact("/segmented.jpg") =>
             /\ pc = "done"
             /\ written[Len(written)].name = "/segmented.jpg"
             /\ Len(written) = Len(PipelineArtifacts(mode)) + 1
             /\ written[Len(written)].img = RouteAndVegReturned

\* A run of the structure variant has completed in which every stage
\* changed the raster it was given.
C13_Witness ==
    /\ mode = "segmentAM_noStructures"
    /\ pc = "done"
    /\ HasArtifact("/segmented.jpg")
    /\ PrivatePropertyReturned # caller.base
    /\ StructuresReturned # PrivatePropertyReturned
    /\ Artifact("/subresults/012_Filtering_Result.png") # StructuresReturned

---------------------------------------------------------------------------
(* Exceptions raised inside the segmentation functions.  No function of
   segmentation.py catches an exception: it leaves the filter and the
   pipeline function that called it. *)

\* lines 32-34: None has no method copy.
PPF_CopyRaises ==
    /\ pc = "ppf_copy"
    /\ None \in {amBaseMap, boundariesImage, routesImage}
    /\ ret' = Raised("AttributeError")
    /\ pc' = "raised"
    /\ UNCHANGED <<convVars, dirVars, ioVars, cmpVars, tileVars, mode, caller, alias, amBaseMap,
                   boundariesImage, routesImage, boundariesGrey,
                   boundariesBinary, contours, idx, satellite,
                   amBaseMapBinary, binaryImage, green_mask, amDetailed,
                   structures, found, fills, labels, written>>

\* line 74: cv2.bitwise_and refuses a mask whose size is not that of the
\* route raster.
PPF_ClassifyRaises ==
    /\ pc = "ppf_loop"
    /\ idx <= Len(contours)
    /\ ~SameShape(routesImage, boundariesGrey)
    /\ ret' = Raised("cv2.error")
    /\ pc' = "raised"
    /\ UNCHANGED <<convVars, dirVars, ioVars, cmpVars, tileVars, mode, caller, alias, amBaseMap,
                   boundariesImage, routesImage, boundariesGrey,
                   boundariesBinary, contours, idx, satellite,
                   amBaseMapBinary, binaryImage, green_mask, amDetailed,
                   structures, found, fills, labels, written>>

\* line 109: a boolean index whose shape is not that of the base map.
PPF_ResultRaises ==
    /\ pc = "ppf_result"
    /\ ~SameShape(amBaseMap, boundariesImage)
    /\ ret' = Raised("IndexError")
    /\ pc' = "raised"
    /\ UNCHANGED <<convVars, dirVars, ioVars, cmpVars, tileVars, mode, caller, alias, amBaseMap,
                   boundariesImage, routesImage, boundariesGrey,
                   boundariesBinary, contours, idx, satellite,
                   amBaseMapBinary, binaryImage, green_mask, amDetailed,
                   structures, found, fills, labels, written>>

PPF_Faults == PPF_CopyRaises \/ PPF_ClassifyRaises \/ PPF_ResultRaises

\* lines 130-131: None has no method copy.
Structures_CopyRaises ==
    /\ pc = "sf_copy"
    /\ None \in {amDetailed, structures}
    /\ ret' = Raised("AttributeError")
    /\ pc' = "raised"
    /\ UNCHANGED <<convVars, dirVars, ioVars, cmpVars, tileVars, mode, caller, alias, amBaseMap,
                   boundariesImage, routesImage, boundariesGrey,
                   boundariesBinary, contours, idx, satellite,
                   amBaseMapBinary, binaryImage, green_mask, amDetailed,
                   structures, found, fills, labels, written>>

\* lines 163-164: None has no method copy.
RVF_CopyRaises ==
    /\ pc = "rvf_copy"
    /\ None \in {amBaseMap, routesImage}
    /\ ret' = Raised("AttributeError")
    /\ pc' = "raised"
    /\ UNCHANGED <<convVars, dirVars, ioVars, cmpVars, tileVars, mode, caller, alias, amBaseMap,
                   boundariesImage, routesImage, boundariesGrey,
                   boundariesBinary, contours, idx, satellite,
                   amBaseMapBinary, binaryImage, green_mask, amDetailed,
                   structures, found, fills, labels, written>>

\* A fault that takes the artifacts written so far with it.
RVF_SatelliteRaisesRollback ==
    /\ pc = "rvf_satellite"
    /\ satellite = None
    /\ ret' = Raised("cv2.error")
    /\ written' = <<>>
    /\ pc' = "raised"
    /\ UNCHANGED <<convVars, dirVars, ioVars, cmpVars, tileVars, mode,
                   caller, alias, amBaseMap, boundariesImage, routesImage,
                   boundariesGrey, boundariesBinary, contours, idx,
                   satellite, amBaseMapBinary, binaryImage, green_mask,
                   amDetailed, structures, found, fills, labels>>

\* line 251: cv2.cvtColor refuses None.
RVF_SatelliteRaises ==
    /\ pc = "rvf_satellite"
    /\ satellite = None
    /\ ret' = Raised("cv2.error")
    /\ pc' = "raised"
    /\ UNCHANGED <<convVars, dirVars, ioVars, cmpVars, tileVars, mode, caller, alias, amBaseMap,
                   boundariesImage, routesImage, boundariesGrey,
                   boundariesBinary, contours, idx, satellite,
                   amBaseMapBinary, binaryImage, green_mask, amDetailed,
                   structures, found, fills, labels, written>>

\* line 284: the contour lies outside the route raster, its mask is empty
\* and whitePixelCount / totalPixelCount divides by zero.
RVF_ClassifyRaises ==
    /\ pc = "rvf_loop"
    /\ idx <= Len(contours)
    /\ TotalPixelCount(binaryImage, contours[idx]) = 0
    /\ ret' = Raised("ZeroDivisionError")
    /\ pc' = "raised"
    /\ UNCHANGED <<convVars, dirVars, ioVars, cmpVars, tileVars, mode, caller, alias, amBaseMap,
                   boundariesImage, routesImage, boundariesGrey,
                   boundariesBinary, contours, idx, satellite,
                   amBaseMapBinary, binaryImage, green_mask, amDetailed,
                   structures, found, fills, labels, written>>

\* line 316: cv2.addWeighted refuses two rasters of different sizes.
RVF_OverlayRaises ==
    /\ pc = "rvf_loop"
    /\ idx > Len(contours)
    /\ ~SameShape(amBaseMap, routesImage)
    /\ ret' = Raised("cv2.error")
    /\ pc' = "raised"
    /\ UNCHANGED <<convVars, dirVars, ioVars, cmpVars, tileVars, mode, caller, alias, amBaseMap,
                   boundariesImage, routesImage, boundariesGrey,
                   boundariesBinary, contours, idx, satellite,
                   amBaseMapBinary, binaryImage, green_mask, amDetailed,
                   structures, found, fills, labels, written>>

RVF_Faults ==
    \/ RVF_CopyRaises
    \/ RVF_SatelliteRaises
    \/ RVF_ClassifyRaises
    \/ RVF_OverlayRaises

\* The left columns and upper rows of a raster.
Crop(img, rows, cols) ==
    Raster(rows, cols, [q \in (0..(cols - 1)) \X (0..(rows - 1)) |-> img.px[q]])

\* Five loaded rasters of one size.
LoadedWhole == Loaded(StructuresOne, BoundaryVLine, RoutesOne, BaseDrawn, SatBand4)

LayerNames == {"base", "boundaries", "routes", "satellite", "structures"}

\* The loaded rasters when one of the five files could not be read.
NullScenes == {[LoadedWhole EXCEPT ![n] = None] : n \in LayerNames}

\* The loaded rasters when one co-layer is a column narrower or a row
\* shorter than the others; with a blank boundary map no property contour
\* is classified.
MismatchScenes ==
    {[LoadedWhole EXCEPT ![n] = Crop(LoadedWhole[n], Rows, Cols - 1)] :
        n \in {"base", "boundaries", "routes", "satellite"}}
    \cup {[LoadedWhole EXCEPT !.satellite = Crop(SatBand4, Rows - 1, Cols)],
          [LoadedWhole EXCEPT !.boundaries = WhiteSheet,
                              !.routes = Crop(RoutesOne, Rows - 1, Cols)]}

\* Direct calls of routeAndVegFiltering: with a route raster that ends left
\* of the right parcel of the base map, and with no route raster.
NarrowRoutesScene == LoadedForRVF(BoundaryVLine, Crop(WhiteSheet, Rows, 10), SatGround)

InitFaults ==
    /\ pc = "call"
    /\ \/ mode \in PipelineModes /\ caller \in NullScenes \cup MismatchScenes
       \/ mode = "routeAndVegFiltering"
          /\ caller \in {NarrowRoutesScene, LoadedForRVF(BaseDrawn, None, SatGround)}
    /\ IdleLocals

NextFaults ==
    \/ NextPipeline
    \/ Notebook_RouteAndVegFiltering
    \/ PPF_Faults
    \/ Structures_CopyRaises
    \/ RVF_Faults

SpecFaults == InitFaults /\ [][NextFaults]_vars

---------------------------------------------------------------------------
(* Pipeline runs on rasters that were not loaded *)

\* lines 371-374 and 402-408: the loaded rasters a pipeline variant passes
\* on to a filter.  segmentAM never touches its parameter amWithRoads.
UsedLayers(variant) ==
    IF variant = "segmentAM"
    THEN {"base", "boundaries", "routes", "satellite"}
    ELSE {"base", "boundaries", "routes", "satellite", "structures"}

NullLayers == {n \in LayerNames : caller[n] = None}

PipelineRun == mode \in PipelineModes

Completed == pc = "done" /\ HasArtifact("/segmented.jpg")

\* C14 as stated: no pipeline run with a null input raster completes or
\* writes segmented.jpg.
C14_NullInputNeverCompletes ==
    (PipelineRun /\ NullLayers # {}) => pc # "done" /\ ~HasArtifact("/segmented.jpg")

\* C14 amended: a pipeline run with a null raster among the layers its
\* variant uses never completes and never writes segmented.jpg: it cannot
\* get past the statement that needs the raster (the copies at the entry of
\* privatePropertyFiltering for the base map, the boundaries and the routes,
\* before any artifact; the copy at the entry of structureFiltering for the
\* structures; the colour conversion of the satellite raster after artifact
\* 016), where an AttributeError or a cv2.error leaves the run.  The
\* layers used are all five in segmentAM_noStructures and all but
\* AM_with_roads in segmentAM: a run of segmentAM whose only null raster is
\* AM_with_roads raises nothing.
C14_NullUsedLayerRaises ==
    PipelineRun =>
        /\ NullLayers \cap UsedLayers(mode) # {} =>
               pc # "done" /\ ~HasArtifact("/segmented.jpg")
        /\ NullLayers \cap {"base", "boundaries", "routes"} # {} =>
               written = <<>> /\ pc \in {"call", "ppf_copy", "raised"}
        /\ (mode = "segmentAM_noStructures" /\ "structures" \in NullLayers) =>
               ~HasArtifact("/subresults/006_Structures_Redmask.png")
        /\ "satellite" \in NullLayers =>
               ~HasArtifact("/subresults/017_1_Satellite_Green_Mask.png")
        /\ (NullLayers # {} /\ pc = "raised") =>
               ret \in {Raised("AttributeError"), Raised("cv2.error")}
        /\ (mode = "segmentAM" /\ NullLayers = {"structures"}) => pc # "raised"

\* A run has ended with an exception after its first artifacts were
\* written: the satellite raster is null.
C14_Witness ==
    /\ PipelineRun
    /\ caller.satellite = None
    /\ pc = "raised"
    /\ ret = Raised("cv2.error")
    /\ HasArtifact("/subresults/016_Routes_Binary.png")
    /\ ~HasArtifact("/subresults/017_1_Satellite_Green_Mask.png")

---------------------------------------------------------------------------
(* Pipeline runs on rasters of different sizes *)

CoLayers == {"base", "boundaries", "routes", "satellite"}

\* Two of the loaded co-layers differ in height or width.
LayersMismatch ==
    \E a, b \in CoLayers :
        /\ caller[a] # None
        /\ caller[b] # None
        /\ ~SameShape(caller[a], caller[b])

\* C19: no pipeline run on co-layers of different sizes completes or writes
\* segmented.jpg.
C19_MismatchNeverCompletes ==
    (PipelineRun /\ LayersMismatch) => pc # "done" /\ ~HasArtifact("/segmented.jpg")

---------------------------------------------------------------------------
(* structureFiltering called on its own *)

\* The notebook calls structureFiltering on rasters it loaded.
Notebook_StructureFiltering ==
    /\ pc = "call"
    /\ mode = "structureFiltering"
    /\ amDetailed' = caller.base
    /\ structures' = caller.structures
    /\ alias' = [n \in {"amDetailed", "structures"} |->
                   IF n = "amDetailed" THEN "base" ELSE "structures"]
    /\ pc' = "sf_copy"
    /\ UNCHANGED <<convVars, dirVars, ioVars, cmpVars, tileVars, mode, caller, amBaseMap,
                   boundariesImage, routesImage, boundariesGrey,
                   boundariesBinary, contours, idx, satellite,
                   amBaseMapBinary, binaryImage, green_mask, found, fills,
                   labels, written, ret>>

\* Colours of a building on the structures map: on, just inside and just
\* outside each border of the band (10, 50, 50) - (60, 255, 255).
StructureColours ==
    {<<0, 165, 255>>, <<0, 85, 255>>, <<0, 80, 255>>, <<0, 255, 0>>,
     <<5, 255, 0>>, <<205, 230, 255>>, <<206, 230, 255>>, <<0, 25, 50>>,
     <<0, 25, 49>>, White, Black, Red}

\* A base map and a structures map with one building of one colour.
LoadedForStructures(base, colour) ==
    [base |-> base,
     structures |-> PaintRect(WhiteSheet, 2, 4, 6, 8, colour),
     boundaries |-> None, routes |-> None, satellite |-> None]

InitStructures ==
    /\ mode = "structureFiltering"
    /\ pc = "call"
    /\ caller \in {LoadedForStructures(base, colour) :
                     base \in {WhiteSheet, GreySheet, BaseDrawn},
                     colour \in StructureColours}
    /\ IdleLocals

NextStructures == Notebook_StructureFiltering \/ Structures_Steps

SpecStructures == InitStructures /\ [][NextStructures]_vars

---------------------------------------------------------------------------
(* The caller's rasters across calls *)

\* Each filter is called on its own, and each pipeline variant is run, on
\* every loaded scene.
InitCalls ==
    /\ mode \in {"privatePropertyFiltering", "structureFiltering",
                 "routeAndVegFiltering"} \cup PipelineModes
    /\ pc = "call"
    /\ caller \in PipelineScenes
    /\ IdleLocals

NextCalls ==
    \/ Notebook_PrivatePropertyFiltering
    \/ Notebook_StructureFiltering
    \/ Notebook_RouteAndVegFiltering
    \/ NextPipeline

SpecCalls == InitCalls /\ [][NextCalls]_vars

\* C15: no step of a call of privatePropertyFiltering, structureFiltering or
\* routeAndVegFiltering, and no step of a pipeline run, changes a pixel of a
\* raster the caller passed in.
C15_CallerRastersUnchanged == [][caller' = caller]_vars

\* A direct call has returned a raster that differs from the base map the
\* caller passed.
C15_Witness ==
    /\ pc \in {"ppf_return", "sf_return", "rvf_return"}
    /\ mode \in {"privatePropertyFiltering", "structureFiltering",
                 "routeAndVegFiltering"}
    /\ ret # caller.base

\* A colour whose HSV value lies in the band (10, 50, 50) - (60, 255, 255),
\* borders included.
InStructureBand(c) ==
    LET hsv == HSV(c)
    IN  /\ 10 <= hsv[1] /\ hsv[1] <= 60
        /\ 50 <= hsv[2] /\ hsv[2] <= 255
        /\ 50 <= hsv[3] /\ hsv[3] <= 255

\* C16: the raster structureFiltering returns has the size of the base map it
\* was given; a pixel of it is red where the structures raster, at the same
\* position, is in the band, and has the value of the base map elsewhere.
C16_StructuresOverwrittenPixelwise ==
    (mode = "structureFiltering" /\ pc = "sf_return") =>
        /\ SameShape(ret, caller.base)
        /\ \A p \in Pos(caller.base) :
               ret.px[p] = IF InStructureBand(caller.structures.px[p])
                           THEN Red ELSE caller.base.px[p]

\* A call has returned on a structures map whose building has a colour on a
\* border of the band: its pixels came back red, the others as they were.
C16_Witness ==
    /\ mode = "structureFiltering"
    /\ pc = "sf_return"
    /\ caller.structures.px[<<2, 6>>] = <<0, 85, 255>>
    /\ caller.base.px[<<2, 6>>] # Red
    /\ ret.px[<<2, 6>>] = Red
    /\ \E p \in Pos(ret) : ret.px[p] # Red /\ ret.px[p] = caller.base.px[p]

---------------------------------------------------------------------------
(* The raster privatePropertyFiltering returns *)

\* C17: the raster privatePropertyFiltering returns has the size of the base
\* map; its pixel is red wherever the blurred, contour-filled boundary raster
\* (artifact 004) is not HSV-green, and is the pixel of the input base map
\* wherever that raster is HSV-green.
C17_ReturnRedOutsidePublicMask ==
    PPFReturned =>
        LET blurred == Artifact("/subresults/004_Boundary_Contour_Blurred.png")
        IN  /\ SameShape(ret, caller.base)
            /\ \A p \in Pos(ret) :
                 /\ ~IsPublic(blurred, p) => ret.px[p] = Red
                 /\ IsPublic(blurred, p) => ret.px[p] = caller.base.px[p]

\* A returned raster with a pixel kept inside the public mask and a pixel
\* turned red outside it.
C17_Witness ==
    /\ PPFReturned
    /\ LET blurred == Artifact("/subresults/004_Boundary_Contour_Blurred.png")
       IN  /\ \E p \in Pos(ret) :
                /\ IsPublic(blurred, p)
                /\ caller.base.px[p] \notin {Red, White}
                /\ ret.px[p] = caller.base.px[p]
           /\ \E p \in Pos(ret) :
                /\ ~IsPublic(blurred, p)
                /\ caller.base.px[p] # Red
                /\ ret.px[p] = Red

---------------------------------------------------------------------------
(* loadImages(pathMaps) *)

\* cv2.imread(pathMaps + file) with the default flag: None when the file is
\* missing or is no image, else the picture as a three-channel raster (a
\* greyscale picture has its value repeated in the three channels).
Imread(file) ==
    IF file \notin DOMAIN disk THEN None
    ELSE IF disk[file].format # "png" THEN None
    ELSE IF disk[file].channels = 1
         THEN WithPx(disk[file].img,
                     [p \in Pos(disk[file].img) |->
                        <<disk[file].img.px[p], disk[file].img.px[p],
                          disk[file].img.px[p]>>])
         ELSE disk[file].img

\* A loader that hands the base map back first.
Load_ImagesBaseFirst ==
    /\ pc = "call"
    /\ mode = "loadImages"
    /\ LET am_withRoads == Imread("/AM_with_roads.png")
           boundaries == Imread("/boundaries.png")
           routes == Imread("/routes.png")
           amBaseMap_ == Imread("/AM_Detailed.png")
           satellite_ == Imread("/satellite.png")
       IN  ret' = <<amBaseMap_, boundaries, routes, am_withRoads, satellite_>>
    /\ pc' = "loaded"
    /\ UNCHANGED <<convVars, dirVars, cmpVars, tileVars, mode, disk, console, response, caller,
                   alias, amBaseMap, boundariesImage, routesImage,
                   boundariesGrey, boundariesBinary, contours, idx,
                   satellite, amBaseMapBinary, binaryImage, green_mask,
                   amDetailed, structures, found, fills, labels, written>>

\* lines 20-26
Load_Images ==
    /\ pc = "call"
    /\ mode = "loadImages"
    /\ LET am_withRoads == Imread("/AM_with_roads.png")
           boundaries == Imread("/boundaries.png")
           routes == Imread("/routes.png")
           amBaseMap_ == Imread("/AM_Detailed.png")
           satellite_ == Imread("/satellite.png")
       IN  ret' = <<am_withRoads, boundaries, routes, amBaseMap_, satellite_>>
    /\ pc' = "loaded"
    /\ UNCHANGED <<convVars, dirVars, cmpVars, tileVars, mode, disk, console, response, caller,
                   alias, amBaseMap, boundariesImage, routesImage,
                   boundariesGrey, boundariesBinary, contours, idx,
                   satellite, amBaseMapBinary, binaryImage, green_mask,
                   amDetailed, structures, found, fills, labels, written>>

\* The five file names, in the order of the values returned.
MapFiles ==
    <<"/AM_with_roads.png", "/boundaries.png", "/routes.png",
      "/AM_Detailed.png", "/satellite.png">>

\* The picture each file holds when it holds one.
Picture(file) ==
    CASE file = "/AM_with_roads.png" -> StructuresOne
      [] file = "/boundaries.png" -> BoundaryVLine
      [] file = "/routes.png" -> RoutesOne
      [] file = "/AM_Detailed.png" -> BaseDrawn
      [] file = "/satellite.png" -> SatBand4

\* What a file can be: not there, an XML error page saved under the name, a
\* colour PNG or a greyscale PNG.
FileKinds == {"missing", "xml", "colour", "grey"}

FileOfKind(file, kind) ==
    CASE kind = "xml" -> [format |-> "xml"]
      [] kind = "colour" -> [format |-> "png", channels |-> 3, img |-> Picture(file)]
      [] kind = "grey" -> [format |-> "png", channels |-> 1,
                           img |-> BGR2GRAY(Picture(file))]

InitLoad ==
    /\ mode = "loadImages"
    /\ pc = "call"
    /\ caller = NoCaller
    /\ IdleFilters
    /\ IdleCompare
    /\ IdleTiles
    /\ \E kind \in [{MapFiles[k] : k \in 1..5} -> FileKinds] :
         disk = [file \in {f \in DOMAIN kind : kind[f] # "missing"} |->
                   FileOfKind(file, kind[file])]
    /\ console = <<>>
    /\ response = NoResponse
    /\ IdleDirs
    /\ IdleConv

NextLoad == Load_Images

SpecLoad == InitLoad /\ [][NextLoad]_vars

\* The file is there and holds a picture.
Readable(file) == file \in DOMAIN disk /\ disk[file].format = "png"

\* The colour raster of the picture in a readable file.
Decoded(file) ==
    IF disk[file].channels = 3 THEN Picture(file)
    ELSE LET grey == BGR2GRAY(Picture(file))
         IN  WithPx(grey, [p \in Pos(grey) |->
                              <<grey.px[p], grey.px[p], grey.px[p]>>])

\* C18: loadImages never raises; it returns five values, the k-th being the
\* raster of the k-th of AM_with_roads, boundaries, routes, AM_Detailed and
\* satellite when that file holds a picture, and the null raster when the
\* file is missing or unreadable, whatever the other files are.
C18_FiveRastersInOrderNullWhenMissing ==
    mode = "loadImages" =>
        /\ pc \in {"call", "loaded"}
        /\ pc = "loaded" =>
             /\ Len(ret) = 5
             /\ \A k \in 1..5 :
                  ret[k] = IF Readable(MapFiles[k])
                           THEN Decoded(MapFiles[k]) ELSE None

\* A load with one file missing and one unreadable: both positions are null
\* and the three other rasters are loaded.
C18_Witness ==
    /\ mode = "loadImages"
    /\ pc = "loaded"
    /\ "/routes.png" \notin DOMAIN disk
    /\ "/boundaries.png" \in DOMAIN disk
    /\ disk["/boundaries.png"].format = "xml"
    /\ ret[2] = None
    /\ ret[3] = None
    /\ ret[1] = StructuresOne
    /\ ret[4] = BaseDrawn
    /\ ret[5] # None

---------------------------------------------------------------------------
(* createDirectory of dataprepGoogle and of dataprepDataforsyningen *)

DirModes == {"createDirectory_Google", "createDirectory_Dataforsyningen"}

\* The path assembled by the f-string, Google line 164 and Dataforsyningen
\* line 128; the latter has no project name.
OutputDir(m, name, res, z) ==
    IF m = "createDirectory_Google"
    THEN "C:\\Users\\Nielsen\\Desktop\\tile2net\\tile2net-main\\ITUData\\Google\\tiles\\"
         \o name \o "\\tiles\\static\\" \o ToString(res) \o "_" \o ToString(z)
    ELSE "C:\\Users\\Nielsen\\Desktop\\tile2net\\tile2net-main\\ITUData\\Dataforsyningen\\tiles\\static\\"
         \o ToString(res) \o "_" \o ToString(z)

\* The value a call hands back when it returns a path.
Path(p) == [path |-> p]

Directory == [kind |-> "dir"]

\* Google line 164, Dataforsyningen line 128
CreateDirectory_Path ==
    /\ pc = "call"
    /\ mode \in DirModes
    /\ outputDir' = OutputDir(mode, projectName, resolution, zoom)
    /\ pc' = "cd_exists"
    /\ UNCHANGED <<convVars, cmpVars, tileVars, mode, disk, console, response,
                   projectName, resolution, zoom, caller, alias, amBaseMap,
                   boundariesImage, routesImage, boundariesGrey,
                   boundariesBinary, contours, idx, satellite,
                   amBaseMapBinary, binaryImage, green_mask, amDetailed,
                   structures, found, fills, labels, written, ret>>

\* Google lines 166 and 175-176, Dataforsyningen lines 130 and 137-138:
\* os.path.exists is true of a directory and of a file.
CreateDirectory_Found ==
    /\ pc = "cd_exists"
    /\ outputDir \in DOMAIN disk
    /\ console' = Append(console, [text |-> "found.", value |-> outputDir])
    /\ pc' = "cd_return"
    /\ UNCHANGED <<convVars, cmpVars, tileVars, mode, disk, response, projectName,
                   resolution, zoom, outputDir, caller, alias, amBaseMap,
                   boundariesImage, routesImage, boundariesGrey,
                   boundariesBinary, contours, idx, satellite,
                   amBaseMapBinary, binaryImage, green_mask, amDetailed,
                   structures, found, fills, labels, written, ret>>

\* Google lines 166-170, Dataforsyningen lines 130-133: os.makedirs makes the
\* directory.
CreateDirectory_Makedirs ==
    /\ pc = "cd_exists"
    /\ outputDir \notin DOMAIN disk
    /\ disk' = (outputDir :> Directory) @@ disk
    /\ console' = Append(console, [text |-> "created.", value |-> outputDir])
    /\ pc' = "cd_return"
    /\ UNCHANGED <<convVars, cmpVars, tileVars, mode, response, projectName,
                   resolution, zoom, outputDir, caller, alias, amBaseMap,
                   boundariesImage, routesImage, boundariesGrey,
                   boundariesBinary, contours, idx, satellite,
                   amBaseMapBinary, binaryImage, green_mask, amDetailed,
                   structures, found, fills, labels, written, ret>>

\* Google lines 171-173, Dataforsyningen lines 134-136: os.makedirs raises
\* OSError, the handler prints it and returns None.
CreateDirectory_MakedirsRaises ==
    /\ pc = "cd_exists"
    /\ outputDir \notin DOMAIN disk
    /\ console' = Append(console, [text |-> "OSError", value |-> outputDir])
    /\ ret' = None
    /\ pc' = "cd_returned"
    /\ UNCHANGED <<convVars, cmpVars, tileVars, mode, disk, response, projectName,
                   resolution, zoom, outputDir, caller, alias, amBaseMap,
                   boundariesImage, routesImage, boundariesGrey,
                   boundariesBinary, contours, idx, satellite,
                   amBaseMapBinary, binaryImage, green_mask, amDetailed,
                   structures, found, fills, labels, written>>

\* Google line 178, Dataforsyningen line 139
CreateDirectory_Return ==
    /\ pc = "cd_return"
    /\ ret' = Path(outputDir)
    /\ pc' = "cd_returned"
    /\ UNCHANGED <<convVars, cmpVars, tileVars, mode, disk, console, response,
                   projectName, resolution, zoom, outputDir, caller, alias,
                   amBaseMap, boundariesImage, routesImage, boundariesGrey,
                   boundariesBinary, contours, idx, satellite,
                   amBaseMapBinary, binaryImage, green_mask, amDetailed,
                   structures, found, fills, labels, written>>

ProjectNames == {"Copenhagen", "Aarhus"}

Resolutions == {256, 512}

Zooms == {18, 19, 20}

\* The target is missing, is a directory already, or is a file.
InitDirs ==
    /\ mode \in DirModes
    /\ pc = "call"
    /\ caller = NoCaller
    /\ IdleFilters
    /\ IdleCompare
    /\ IdleTiles
    /\ projectName \in IF mode = "createDirectory_Google" THEN ProjectNames ELSE {""}
    /\ resolution \in Resolutions
    /\ zoom \in Zooms
    /\ outputDir = ""
    /\ disk \in {<<>>,
                 (OutputDir(mode, projectName, resolution, zoom) :> Directory),
                 (OutputDir(mode, projectName, resolution, zoom) :> [kind |-> "file"])}
    /\ console = <<>>
    /\ response = NoResponse
    /\ IdleConv

NextDirs ==
    \/ CreateDirectory_Path
    \/ CreateDirectory_Found
    \/ CreateDirectory_Makedirs
    \/ CreateDirectory_MakedirsRaises
    \/ CreateDirectory_Return

SpecDirs == InitDirs /\ [][NextDirs]_vars

\* A call of createDirectory is over.
DirectoryCallOver == mode \in DirModes /\ pc \in {"cd_returned", "raised"}

IsDirectory(p) == p \in DOMAIN disk /\ disk[p] = Directory

\* C20 as stated: a call that ends without the directory in place has raised
\* OSError to its caller, and a call returns the path only with the directory
\* in place.
C20_RaisesOSErrorWhenNotCreated ==
    DirectoryCallOver =>
        IF IsDirectory(outputDir)
        THEN ret = Path(outputDir)
        ELSE pc = "raised" /\ ret = Raised("OSError")

---------------------------------------------------------------------------
(* tileSysConv and getTiles of dataprepDataforsyningen.py *)

\* lines 28-35
xStart == 120000
yStart == 5900000
xEnd == 1000000
yEnd == 6500000
matrixWidth == 68750
matrixHeight == 46875
xSpan == xEnd - xStart
ySpan == yEnd - yStart

RECURSIVE Gcd(_, _)
Gcd(a, b) == IF b = 0 THEN a ELSE Gcd(b, a % b)

\* int(q) for a quotient n / d with d > 0: the fraction is cut off, towards
\* zero.
IntOfQuotient(n, d) == IF n >= 0 THEN n \div d ELSE -((-n) \div d)

\* lines 37 and 40, 42: int((x - xStart) / xRatio + 1), with the ratio
\* xSpan / matrixWidth kept as a fraction in lowest terms.
XTile(x) ==
    LET g == Gcd(xSpan, matrixWidth)
        num == xSpan \div g
        den == matrixWidth \div g
    IN  IntOfQuotient((x - xStart) * den + num, num)

\* lines 38 and 41, 43: int(matrixHeight - ((y - yStart) / yRatio + 1))
YTile(y) ==
    LET g == Gcd(ySpan, matrixHeight)
        num == ySpan \div g
        den == matrixHeight \div g
    IN  IntOfQuotient((matrixHeight - 1) * num - (y - yStart) * den, num)

\* line 50, the return that is commented out: the tile boundaries of the
\* coordinates.
TileBoundaries(x1, y1, x2, y2) ==
    <<Min(XTile(x1), XTile(x2)), Max(XTile(x1), XTile(x2)),
      Min(YTile(y1), YTile(y2)), Max(YTile(y1), YTile(y2))>>

\* lines 27-51: the boundaries are computed and then left unused.
TileSysConv(x1, y1, x2, y2) ==
    LET computed == TileBoundaries(x1, y1, x2, y2)
    IN  <<35479, 35489, 21566, 21571>>

\* line 81, the call
Daf_TileSysConv ==
    /\ pc = "call"
    /\ mode = "getTiles"
    /\ fetcher = "Dataforsyningen"
    /\ ret' = TileSysConv(minXC, minYC, maxXC, maxYC)
    /\ pc' = "conv_return"
    /\ UNCHANGED <<convVars, dirVars, ioVars, cmpVars, mode, fetcher, xMin,
                   xMax, yMin, yMax, tileX, tileY, totalTiles, status,
                   requests, printed, tileFiles, fault, caller, alias,
                   amBaseMap, boundariesImage, routesImage, boundariesGrey,
                   boundariesBinary, contours, idx, satellite,
                   amBaseMapBinary, binaryImage, green_mask, amDetailed,
                   structures, found, fills, labels, written>>

\* lines 81-88: the boundaries are unpacked, the tiles are counted and the
\* loops start.
Daf_Bounds ==
    /\ pc = "conv_return"
    /\ xMin' = ret[1]
    /\ xMax' = ret[2]
    /\ yMin' = ret[3]
    /\ yMax' = ret[4]
    /\ totalTiles' = (xMax' - xMin' + 1) * (yMax' - yMin' + 1)
    /\ status' = 0
    /\ tileX' = xMin'
    /\ tileY' = yMin'
    /\ pc' = "tiles_loop"
    /\ UNCHANGED <<convVars, dirVars, ioVars, cmpVars, mode, fetcher,
                   requests, printed, tileFiles, fault, caller, alias,
                   amBaseMap, boundariesImage, routesImage, boundariesGrey,
                   boundariesBinary, contours, idx, satellite,
                   amBaseMapBinary, binaryImage, green_mask, amDetailed,
                   structures, found, fills, labels, written, ret>>

\* Eastings and northings of requested boxes: around Odense, where the
\* returned boundaries lie, and on Zealand.
Eastings == {574120, 574250, 724500}

Northings == {6223870, 6223935, 6175500}

InitDataforsyningen ==
    /\ mode = "getTiles"
    /\ pc = "call"
    /\ caller = NoCaller
    /\ IdleFilters
    /\ IdleCompare
    /\ IdleIO
    /\ IdleDirs
    /\ fetcher = "Dataforsyningen"
    /\ xMin = 0 /\ xMax = 0 /\ yMin = 0 /\ yMax = 0
    /\ tileX = 0 /\ tileY = 0
    /\ totalTiles = 0
    /\ status = 0
    /\ requests = <<>> /\ printed = <<>> /\ tileFiles = {}
    /\ fault = "none"
    /\ minXC \in Eastings /\ maxXC \in Eastings /\ minXC <= maxXC
    /\ minYC \in Northings /\ maxYC \in Northings /\ minYC <= maxYC

\* A run in which every download succeeds.
NextDataforsyningen ==
    \/ Daf_TileSysConv
    \/ Daf_Bounds
    \/ Tile_Downloaded
    \/ Tiles_Close

SpecDataforsyningen == InitDataforsyningen /\ [][NextDataforsyningen]_vars

\* The tiles that cover the requested box.
CoveringTiles ==
    LET t == TileBoundaries(minXC, minYC, maxXC, maxYC)
    IN  {FilePath(x, y) : x \in t[1]..t[2], y \in t[3]..t[4]}

\* C21 as stated: the boundaries getTiles works with are the least and
\* greatest tile indices computed from the coordinates it was given, and the
\* tiles it has downloaded at the end are those that cover the requested box.
C21_TilesCoverRequestedBox ==
    (mode = "getTiles" /\ fetcher = "Dataforsyningen") =>
        /\ pc \in {"tiles_loop", "tiles_done"} =>
             <<xMin, xMax, yMin, yMax>> = TileBoundaries(minXC, minYC, maxXC, maxYC)
        /\ pc = "tiles_done" => tileFiles = CoveringTiles

---------------------------------------------------------------------------
(* The confusion matrix of compare *)

\* The positions the loops of compare have been through: the rows above
\* row i and the pixels of row i left of column j.
Processed ==
    {p \in Pos(shapesMask) : p[2] < cmp_i \/ (p[2] = cmp_i /\ p[1] < cmp_j)}

\* The processed positions with a given colour in the result map.
Coloured(colour) == {p \in Processed : resultMap.px[p] = colour}

---------------------------------------------------------------------------
(* The metrics of compare *)

\* compare on the masks of InitCompare and on a pair of masks without pixels.
InitCompareAny ==
    /\ mode = "compare"
    /\ pc = "cmp_loop"
    /\ caller = NoCaller
    /\ IdleFilters
    /\ IdleTiles
    /\ IdleIO
    /\ IdleDirs
    /\ IdleConv
    /\ \E s \in MaskShapes \cup {<<0, 0>>} :
         /\ shapesMask \in MasksOf(s)
         /\ groundTruthMask \in MasksOf(s)
         /\ resultMap = Blank(s[1], s[2], <<0, 0, 0>>)
    /\ cmp_i = 0 /\ cmp_j = 0
    /\ tp = 0 /\ fp = 0 /\ fn = 0 /\ tn = 0
    /\ precision = <<0, 1>> /\ recall = <<0, 1>> /\ accuracy = <<0, 1>>

SpecCompareAny == InitCompareAny /\ [][NextCompare]_vars

\* The quotient n / d is defined and lies in [0, 1].
InUnitInterval(q) == q[2] > 0 /\ 0 <= q[1] /\ q[1] <= q[2]

\* The ratio of the sizes of two sets of positions, 0 when the second is
\* empty.
RatioOrZero(part, whole) ==
    IF whole = {} THEN <<0, 1>> ELSE <<Cardinality(part), Cardinality(whole)>>

\* C23: compare ends without a division by zero.  Precision is the share of
\* the predicted-black pixels that are black in the ground truth, and 0 when
\* no pixel is predicted black; recall is the share of the ground-truth-black
\* pixels that are predicted black, and 0 when the ground truth has no black
\* pixel; accuracy is the share of the pixels on which the masks agree, and
\* 0 when the mask has no pixels.  Each metric lies in [0, 1].
C23_MetricsGuardedAndExact ==
    mode = "compare" =>
        /\ pc \in {"cmp_loop", "cmp_done"}
        /\ pc = "cmp_done" =>
             LET predicted == {p \in Pos(shapesMask) : shapesMask.px[p] = 0}
                 truth == {p \in Pos(shapesMask) : groundTruthMask.px[p] = 0}
                 agreed == {p \in Pos(shapesMask) :
                              (shapesMask.px[p] = 0) <=> (groundTruthMask.px[p] = 0)}
             IN  /\ precision = RatioOrZero(predicted \cap truth, predicted)
                 /\ recall = RatioOrZero(predicted \cap truth, truth)
                 /\ accuracy = RatioOrZero(agreed, Pos(shapesMask))
                 /\ InUnitInterval(precision)
                 /\ InUnitInterval(recall)
                 /\ InUnitInterval(accuracy)

\* No pixel was predicted black although the ground truth has one: the
\* precision is 0 by its guard, the recall is the ratio 0 / (tp + fn).
C23_Witness ==
    /\ mode = "compare"
    /\ pc = "cmp_done"
    /\ tp + fp = 0
    /\ fn > 0
    /\ tn > 0
    /\ precision = <<0, 1>>
    /\ recall = <<0, fn>>
    /\ accuracy = <<tn, tn + fn>>

---------------------------------------------------------------------------
(* Pipeline runs that fault part-way *)

\* C24: at every point of a pipeline run the artifacts written so far are
\* the first ones of the variant's list; segmented.jpg is there only when
\* the run is done and every artifact of every stage has been written; a run
\* that has faulted has written fewer artifacts than a whole run and no
\* segmented.jpg.  No step takes a written file away, and none follows a
\* fault.  (Stated of every step of a run and of the state it leads to.)
C24_FaultKeepsArtifactsNoFinalResult ==
    [][PipelineRun =>
         /\ pc # "raised"
         /\ IsPrefix(written, written')
         /\ IsPrefix(SubresultNames', PipelineArtifacts(mode))
         /\ HasArtifact("/segmented.jpg")' =>
              /\ pc' = "done"
              /\ SubresultNames' = PipelineArtifacts(mode)
         /\ pc' = "raised" =>
              /\ ~HasArtifact("/segmented.jpg")'
              /\ Len(SubresultNames') < Len(PipelineArtifacts(mode))]_vars

\* A run of the structure variant has faulted in routeAndVegFiltering after
\* the two stages before it succeeded: their artifacts and the first ones of
\* the third stage are there, segmented.jpg is not.
C24_Witness ==
    /\ mode = "segmentAM_noStructures"
    /\ pc = "raised"
    /\ HasArtifact("/subresults/005_Result.png")
    /\ HasArtifact("/subresults/007_Structures_Removed.png")
    /\ HasArtifact("/subresults/016_Routes_Binary.png")
    /\ Len(written) = Len(PrivatePropertyArtifacts) + Len(StructureArtifacts) + 9
    /\ ~HasArtifact("/segmented.jpg")

---------------------------------------------------------------------------
(* The progress counter of getTiles *)

\* C25 as stated: at every point of getTiles the progress counter equals the
\* number of tile files written so far and does not exceed totalTiles; when
\* the loops have ended it equals totalTiles exactly if no request failed;
\* no two requests of a run are for the same tile, so no two tiles share a
\* file.
C25_CounterEqualsFilesWritten ==
    mode = "getTiles" =>
        /\ status = Cardinality(tileFiles)
        /\ status <= totalTiles
        /\ pc = "tiles_done" => (status = totalTiles <=> printed = <<>>)
        /\ \A k, m \in 1..Len(requests) : k # m => requests[k] # requests[m]

====
